---- MODULE Spec2Model ----
(***************************************************************************)
(* Model of the contributor pipeline:                                      *)
(*   pipeline/src/utils.py          request_with_rate_limit,               *)
(*                                  get_json_with_retry                    *)
(*   pipeline/src/github_scrape.py  list_contributors, contributor_stats,  *)
(*                                  users_details, to_dataframe_*,         *)
(*                                  scrape_repo                            *)
(*   pipeline/src/topic_scrape.py   list_pull_requests,                    *)
(*                                  search_repos_for_topic, is_human_user, *)
(*                                  find_repos_by_topics, scrape_repos_prs,*)
(*                                  scrape_users_from_prs,                 *)
(*                                  aggregate_contributors_master          *)
(*   pipeline/run.py                main                                   *)
(* The variable op selects the operation one behaviour runs.               *)
(*                                                                         *)
(* Durations are counted in ticks of half a second, so that the float     *)
(* products backoff * attempt of the source (backoff = 1.5, 2.0, ...) are  *)
(* exact integers and int(backoff * attempt) is a real truncation.         *)
(***************************************************************************)
EXTENDS Integers, Sequences, FiniteSets, TLC

VARIABLES
    op,           \* the top-level operation of this behaviour
    max_retries,  \* argument of the running executor call
    backoff,      \* argument of the running executor call, in ticks
    attempt,      \* loop counter of the running executor call
    r,            \* local r: the last response received (Unbound before any)
    last,         \* how the latest session.request ended: response / exception
    now,          \* last value read from time.time(), in seconds
    calls,        \* HTTP requests issued by the running executor call
    sleeps,       \* time.sleep calls made by the running executor call
    wait,         \* duration of the latest time.sleep, in ticks
    epc,          \* position of the executor: idle / loop / returned / raised
    ret,          \* what the executor call handed to its caller
    max_pages,    \* argument of search_repos_for_topic
    page,         \* page counter of the collector
    all_rows,     \* records gathered by the collector (all_rows/out/all_items)
    cpc,          \* position of the collector: idle / request / await / done
    cret,         \* what the collector handed to its caller
    requested,    \* params of every page request the collector has made
    served,       \* what the executor handed back for each page request
    answers,      \* the responses the statistics endpoint has given so far
    mpc,          \* position of main: targets / discover / ... / done
    ti,           \* index of the target main is at
    manifest,     \* manifest["outputs"]: key -> entry
    written,      \* MANIFEST.json on disk
    outcome,      \* how each step that main ran ended: ok / failed
    assigned,     \* the keys of manifest["outputs"] in the order assigned
    parent_exists,\* prs_parent.exists()
    fs,           \* the entries of the parent directory and their tables
    repos_json,   \* repos_by_topic.json: missing / unreadable / ok
    repos_map,    \* the descriptors of repos_by_topic.json, in file order
    agg_i,        \* index of the subdirectory the aggregator is at
    agg_rows,     \* local rows: the tables read so far
    repo_csv_count, \* local repo_csv_count
    apc,          \* position of the aggregator: idle / scan / done
    agg_ret,      \* what aggregate_contributors_master handed back
    master,       \* all_contributors_master.csv on disk
    prs_fs,       \* the entries of the PR parent directory
    su_i,         \* index of the entry scrape_users_from_prs is at
    su_pc,        \* position of scrape_users_from_prs: idle/scan/users/done
    logins_list,  \* local logins_list of the entry at hand
    ud_j,         \* index of the login users_details is at
    user_rows,    \* the list users_details is building
    results,      \* local results
    repo_files,   \* users.json / contributors.csv written per directory
    users_index,  \* pr_users_index.json on disk
    su_ret,       \* what scrape_users_from_prs handed back
    fetched,      \* the logins whose profile endpoint was requested, in order
    prs,          \* the pull requests list_pull_requests gave scrape_repos_prs
    pr_i,         \* index of the pull request scrape_repos_prs is at
    pr_records,   \* local pr_records
    human_logins, \* local human_logins
    classified,   \* what is_human_user gave for each author, in order
    ppc,          \* position of scrape_repos_prs: idle / loop / done
    prs_ret,      \* how the loop of scrape_repos_prs ended
    prs_json,     \* pull_requests.json on disk
    nz_kind,      \* which normalization is applied
    nz_in,        \* the raw records given to it
    nz_pc,        \* idle / raw / once / twice
    nz_out,       \* the result of the first application
    nz_again,     \* the result of applying it to that result
    bt_pc,        \* position of the by-topics steps: idle/prs/aggregate/done
    bt_i,         \* index of the repository scrape_repos_prs is at
    pr_origin,    \* per directory: whose pull requests pull_requests.json holds
    csv_origin,   \* per directory: whose pull requests contributors.csv is from
    bt_master,    \* the rows of the master table
    bt_ret,       \* what the aggregator handed back
    sr_pc,        \* position of scrape_repo: idle/contributors/.../done
    contributors_rows, \* local contributors_rows
    df_contrib,   \* local df_contrib, as the list of its rows
    stats_rows,   \* local stats_rows
    logins,       \* local logins
    df_users,     \* local df_users, as the list of its rows
    sr_files,     \* the files of out_dir: name -> number of rows written
    counts,       \* meta["counts"]
    sr_ret,       \* how scrape_repo ended
    fr_pc,        \* position of find_repos_by_topics: idle / search / done
    topics,       \* argument topics
    fr_i,         \* index of the topic searched next
    searched,     \* the items each topic search has given, in order
    repos,        \* local repos, as the list of its values in key order
    serializable, \* repos_by_topic.json, which is also what is returned
    fr_ret        \* how find_repos_by_topics ended

vars == <<op, max_retries, backoff, attempt, r, last, now, calls, sleeps, wait,
          epc, ret, max_pages, page, all_rows, cpc, cret, requested, served,
          answers, mpc, ti, manifest, written, outcome, assigned,
          parent_exists, fs, repos_json, repos_map, agg_i, agg_rows,
          repo_csv_count, apc, agg_ret, master,
          prs_fs, su_i, su_pc, logins_list, ud_j, user_rows, results,
          repo_files, users_index, su_ret, fetched,
          prs, pr_i, pr_records, human_logins, classified, ppc, prs_ret,
          prs_json, nz_kind, nz_in, nz_pc, nz_out, nz_again,
          bt_pc, bt_i, pr_origin, csv_origin, bt_master, bt_ret,
          sr_pc, contributors_rows, df_contrib, stats_rows, logins, df_users,
          sr_files, counts, sr_ret,
          fr_pc, topics, fr_i, searched, repos, serializable, fr_ret>>

exec_vars == <<max_retries, backoff, attempt, r, last, now, calls, sleeps, wait,
               epc, ret>>

coll_vars == <<max_pages, page, all_rows, cpc, cret, requested, served>>

Collectors == {"list_contributors", "list_pull_requests",
               "search_repos_for_topic"}

http_vars == <<exec_vars, coll_vars, answers>>

main_vars == <<mpc, ti, manifest, written, outcome, assigned>>

agg_vars == <<parent_exists, fs, repos_json, repos_map, agg_i, agg_rows,
              repo_csv_count, apc, agg_ret, master>>

su_vars == <<prs_fs, su_i, su_pc, logins_list, ud_j, user_rows, results,
             repo_files, users_index, su_ret, fetched>>

prs_vars == <<prs, pr_i, pr_records, human_logins, classified, ppc, prs_ret,
              prs_json>>

nz_vars == <<nz_kind, nz_in, nz_pc, nz_out, nz_again>>

bt_vars == <<bt_pc, bt_i, pr_origin, csv_origin, bt_master, bt_ret>>

sr_vars == <<sr_pc, contributors_rows, df_contrib, stats_rows, logins,
             df_users, sr_files, counts, sr_ret>>

fr_vars == <<fr_pc, topics, fr_i, searched, repos, serializable, fr_ret>>

pipe_vars == <<main_vars, agg_vars, su_vars, prs_vars, nz_vars>>

----------------------------------------------------------------------------
(* Bounds of the model                                                     *)

\* largest max_retries argument tried besides the default
MaxRetriesArg == 3
\* largest number of records on one page
MaxPageLen == 2
\* last page number an unbounded collector is followed to
MaxPage == 2
\* largest max_pages argument of search_repos_for_topic
MaxPagesArg == 2
\* largest number of rows of a table on disk
MaxRows == 2
\* largest number of descriptors in repos_by_topic.json
MaxRepos == 2
\* largest number of pull requests in a pull_requests.json
MaxPRs == 2
\* largest number of raw records given to a normalization
MaxRecords == 2

(* Program constants                                                       *)

TicksPerSecond == 2
DefaultMaxRetries == 6
\* backoff=1.5 of request_with_rate_limit, in ticks
DefaultBackoff == 3
\* backoff=2.0 of get_json_with_retry, in ticks
JsonBackoff == 4
\* the cap of the fallback wait, min(60, ...), in seconds
FallbackCap == 60
\* the safety margin added to the reset wait, in seconds
ResetMargin == 2
\* params["per_page"]
PerPage == 100

----------------------------------------------------------------------------
(* Values exchanged with the remote API                                    *)

\* a header value: missing (None), the empty string, a string that is not
\* an integer literal (an HTTP date), or an integer literal
Absent == [kind |-> "absent", val |-> 0]
EmptyStr == [kind |-> "empty", val |-> 0]
Text == [kind |-> "text", val |-> 0]
Num(n) == [kind |-> "int", val |-> n]

\* the body of a response: NoJson cannot be decoded, n >= 0 decodes to a
\* list (or an "items" list) of n records
NoJson == -1

RetryAfterValues == {Absent, EmptyStr, Text, Num(0), Num(3)}
ResetValues == {Absent, Text, Num(95), Num(105)}
NowValues == {100, 101}
RetryArgs == (0 .. MaxRetriesArg) \cup {DefaultMaxRetries}
\* 0.5 s, the default 1.5 s, and 40.5 s (large enough to meet the cap)
BackoffArgs == {1, DefaultBackoff, 81}

Unbound == [status |-> 0, ra |-> Absent, reset |-> Absent, body |-> 0]

Response(s, ra, reset, body) ==
    [status |-> s, ra |-> ra, reset |-> reset, body |-> body]

\* the responses the remote API can give to one request: a 200 and a 201
\* carry a body, a 204 and a redirect carry none that decodes, and the body
\* of the other statuses is never read
Responses ==
    { Response(s, Absent, Absent, 0) : s \in {202, 404, 500} }
      \cup { Response(s, ra, reset, 0) :
                s \in {403, 429}, ra \in RetryAfterValues, reset \in ResetValues }
      \cup { Response(200, Absent, Absent, b) : b \in 0 .. MaxPageLen }
      \cup { Response(201, Absent, Absent, b) : b \in {NoJson} \cup (0 .. MaxPageLen) }
      \cup { Response(s, Absent, Absent, NoJson) : s \in {204, 301} }

\* the responses given to a collector's request: the collectors never read
\* the rate-limit headers themselves, so their 403/429 responses keep one
\* value per branch of the wait computation (a zero and a positive
\* Retry-After, a reset epoch ahead of the clock, and neither header)
ListingResponses ==
    { resp \in Responses :
        resp.status \in {403, 429}
          => /\ resp.ra \in {Absent, Num(0), Num(3)}
             /\ resp.reset \in {Absent, Num(105)} }

NoRet == [kind |-> "none", exc |-> "", resp |-> Unbound]
RetResponse(resp) == [kind |-> "response", exc |-> "", resp |-> resp]
RetNone == [kind |-> "None", exc |-> "", resp |-> Unbound]
RetJson(resp) == [kind |-> "json", exc |-> "", resp |-> resp]
RetRaise(e) == [kind |-> "raise", exc |-> e, resp |-> Unbound]

----------------------------------------------------------------------------
(* request_with_rate_limit: the pure decisions                             *)

\* Python truthiness of a header value: None and "" are false
Truthy(h) == h.kind \notin {"absent", "empty"}

\* int(h) succeeds
IsInt(h) == h.kind = "int"

\* Response.raise_for_status raises
RaisesForStatus(resp) == 400 <= resp.status /\ resp.status < 600

\* variant: the sleep uses a 0-based attempt number
BackoffSleepZeroBased(b, k) == b * (k - 1)

\* time.sleep(backoff * attempt), in ticks
BackoffSleep(b, k) == b * k

\* int(backoff * attempt), in seconds
IntBackoff(b, k) == (b * k) \div TicksPerSecond

Min(a, b) == IF a <= b THEN a ELSE b
Max(a, b) == IF a >= b THEN a ELSE b

\* variant: the reset header is consulted before Retry-After
RateLimitWaitResetFirst(resp, t, b, k) ==
    IF Truthy(resp.reset) /\ IsInt(resp.reset)
    THEN Max(0, resp.reset.val - t) + ResetMargin
    ELSE IF Truthy(resp.ra) /\ IsInt(resp.ra)
         THEN resp.ra.val
         ELSE Min(FallbackCap, IntBackoff(b, k))

\* variant: the reset wait lacks its safety margin
RateLimitWaitNoMargin(resp, t, b, k) ==
    IF Truthy(resp.ra) /\ IsInt(resp.ra)
    THEN resp.ra.val
    ELSE IF Truthy(resp.reset) /\ IsInt(resp.reset)
         THEN Max(0, resp.reset.val - t)
         ELSE Min(FallbackCap, IntBackoff(b, k))

\* lines 82-97: the wait of a 429/403 response, in seconds
RateLimitWait(resp, t, b, k) ==
    IF Truthy(resp.ra) /\ IsInt(resp.ra)
    THEN resp.ra.val
    ELSE IF Truthy(resp.reset) /\ IsInt(resp.reset)
         THEN Max(0, resp.reset.val - t) + ResetMargin
         ELSE Min(FallbackCap, IntBackoff(b, k))

\* line 88 reads time.time() only when the reset header is parsed
ReadsClock(resp) ==
    /\ ~(Truthy(resp.ra) /\ IsInt(resp.ra))
    /\ Truthy(resp.reset) /\ IsInt(resp.reset)

Success(s) == s \in {200, 201, 204}
\* variant: a 202 is not singled out
ProcessingIgnored(s) == FALSE
Processing(s) == s = 202
RateLimited(s) == s \in {429, 403}
\* variant: a 404 is not singled out and is retried like any 4xx
NotFoundRetried(s) == FALSE
NotFound(s) == s = 404
OtherError(s) == 400 <= s /\ s < 600

\* what one iteration does with the response it received at attempt k:
\* "return", or a sleep of the given number of ticks followed by continue
Decision(resp, t, b, k) ==
    IF Success(resp.status) THEN [act |-> "return", ticks |-> 0]
    ELSE IF Processing(resp.status)
    THEN [act |-> "sleep", ticks |-> BackoffSleep(b, k)]
    ELSE IF RateLimited(resp.status) /\ RateLimitWait(resp, t, b, k) > 0
    THEN [act |-> "sleep", ticks |-> TicksPerSecond * RateLimitWait(resp, t, b, k)]
    ELSE IF NotFound(resp.status) THEN [act |-> "return", ticks |-> 0]
    ELSE IF OtherError(resp.status)
    THEN [act |-> "sleep", ticks |-> BackoffSleep(b, k)]
    ELSE [act |-> "return", ticks |-> 0]

\* variant: the loop allows one attempt too many
LoopCondOffByOne(k, m) == k <= m
\* `while attempt < max_retries`
LoopCond(k, m) == k < m

----------------------------------------------------------------------------
(* request_with_rate_limit: the loop                                       *)

\* the caller enters request_with_rate_limit
EnterExecutor(m, b) ==
    /\ max_retries' = m
    /\ backoff' = b
    /\ attempt' = 0
    /\ r' = Unbound
    /\ last' = "none"
    /\ calls' = 0
    /\ sleeps' = 0
    /\ wait' = 0
    /\ epc' = "loop"
    /\ ret' = NoRet

\* one iteration whose session.request raises (connection error, timeout)
request_exception ==
    /\ op \notin {"contributor_stats"}
    /\ epc = "loop"
    /\ LoopCond(attempt, max_retries)
    /\ attempt' = attempt + 1
    /\ calls' = calls + 1
    /\ sleeps' = sleeps + 1
    /\ wait' = BackoffSleep(backoff, attempt + 1)
    /\ last' = "exception"
    /\ UNCHANGED <<op, max_retries, backoff, r, now, epc, ret>>
    /\ UNCHANGED <<coll_vars, answers>>
    /\ UNCHANGED pipe_vars
    /\ UNCHANGED <<bt_vars, sr_vars, fr_vars>>

\* one iteration whose session.request returns a response
request_response ==
    /\ op \notin {"contributor_stats"}
    /\ epc = "loop"
    /\ LoopCond(attempt, max_retries)
    /\ \E resp \in IF op = "request_with_rate_limit"
                   THEN Responses ELSE ListingResponses :
       \E t \in IF RateLimited(resp.status) /\ ReadsClock(resp)
                THEN NowValues ELSE {now} :
         LET k == attempt + 1
             d == Decision(resp, t, backoff, k)
         IN  /\ attempt' = k
             /\ calls' = calls + 1
             /\ r' = resp
             /\ last' = "response"
             /\ now' = IF RateLimited(resp.status) /\ ReadsClock(resp)
                       THEN t ELSE now
             /\ IF d.act = "return"
                THEN /\ epc' = "returned"
                     /\ ret' = RetResponse(resp)
                     /\ UNCHANGED <<sleeps, wait>>
                ELSE /\ sleeps' = sleeps + 1
                     /\ wait' = d.ticks
                     /\ UNCHANGED <<epc, ret>>
    /\ UNCHANGED <<op, max_retries, backoff>>
    /\ UNCHANGED <<coll_vars, answers>>
    /\ UNCHANGED pipe_vars
    /\ UNCHANGED <<bt_vars, sr_vars, fr_vars>>

\* lines 117-121: the loop ran out of attempts
retries_exhausted ==
    /\ op \notin {"contributor_stats"}
    /\ epc = "loop"
    /\ ~LoopCond(attempt, max_retries)
    /\ IF r = Unbound \/ RaisesForStatus(r)
       THEN epc' = "raised" /\ ret' = RetRaise("RuntimeError")
       ELSE epc' = "returned" /\ ret' = RetNone
    /\ UNCHANGED <<op, max_retries, backoff, attempt, r, last, now, calls,
                   sleeps, wait>>
    /\ UNCHANGED <<coll_vars, answers>>
    /\ UNCHANGED pipe_vars
    /\ UNCHANGED <<bt_vars, sr_vars, fr_vars>>

----------------------------------------------------------------------------
(* get_json_with_retry, as called by contributor_stats                     *)
(* Here attempt is the 0-based loop variable of range(max_retries).        *)

\* the responses the statistics endpoint can give to one request
StatsResponses ==
    { Response(s, Absent, Absent, 0) : s \in {201, 202, 403, 404, 429, 500} }
      \cup { Response(200, Absent, Absent, b) : b \in 0 .. MaxPageLen }

\* time.sleep(backoff * (attempt + 1)), in ticks
JsonRetrySleep(b, a) == b * (a + 1)

\* variant: a 202 is taken for the final answer
JsonDecision202Final(resp) ==
    IF resp.status \in {200, 202} THEN "return"
    ELSE IF RaisesForStatus(resp) THEN "raise"
    ELSE "continue"

\* lines 29-38: what one iteration does with its response; a status that is
\* neither 200 nor 202 and on which raise_for_status does not raise lets
\* the loop continue without a sleep
JsonDecision(resp) ==
    IF resp.status = 200 THEN "return"
    ELSE IF resp.status = 202 THEN "sleep"
    ELSE IF RaisesForStatus(resp) THEN "raise"
    ELSE "continue"

\* variant: the loop runs once more than max_retries
JsonLoopCondOffByOne(a, m) == a <= m
\* `for attempt in range(max_retries)`
JsonLoopCond(a, m) == a < m

\* session.get raises: get_json_with_retry has no handler, it propagates
get_json_exception ==
    /\ op = "contributor_stats"
    /\ epc = "loop"
    /\ JsonLoopCond(attempt, max_retries)
    /\ calls' = calls + 1
    /\ last' = "exception"
    /\ epc' = "raised"
    /\ ret' = RetRaise("RequestException")
    /\ UNCHANGED <<op, max_retries, backoff, attempt, r, now, sleeps, wait,
                   answers>>
    /\ UNCHANGED coll_vars
    /\ UNCHANGED pipe_vars
    /\ UNCHANGED <<bt_vars, sr_vars, fr_vars>>

\* one iteration whose session.get returns a response
get_json_response ==
    /\ op = "contributor_stats"
    /\ epc = "loop"
    /\ JsonLoopCond(attempt, max_retries)
    /\ \E resp \in StatsResponses :
         /\ calls' = calls + 1
         /\ r' = resp
         /\ last' = "response"
         /\ answers' = Append(answers, resp)
         /\ IF JsonDecision(resp) = "return"
            THEN /\ epc' = "returned"
                 /\ ret' = RetJson(resp)
                 /\ UNCHANGED <<attempt, sleeps, wait>>
            ELSE IF JsonDecision(resp) = "sleep"
            THEN /\ sleeps' = sleeps + 1
                 /\ wait' = JsonRetrySleep(backoff, attempt)
                 /\ attempt' = attempt + 1
                 /\ UNCHANGED <<epc, ret>>
            ELSE IF JsonDecision(resp) = "raise"
            THEN /\ epc' = "raised"
                 /\ ret' = RetRaise("HTTPError")
                 /\ UNCHANGED <<attempt, sleeps, wait>>
            ELSE /\ attempt' = attempt + 1
                 /\ UNCHANGED <<epc, ret, sleeps, wait>>
    /\ UNCHANGED <<op, max_retries, backoff, now>>
    /\ UNCHANGED coll_vars
    /\ UNCHANGED pipe_vars
    /\ UNCHANGED <<bt_vars, sr_vars, fr_vars>>

\* line 39: the for loop ran out
get_json_exhausted ==
    /\ op = "contributor_stats"
    /\ epc = "loop"
    /\ ~JsonLoopCond(attempt, max_retries)
    /\ epc' = "raised"
    /\ ret' = RetRaise("RuntimeError")
    /\ UNCHANGED <<op, max_retries, backoff, attempt, r, last, now, calls,
                   sleeps, wait, answers>>
    /\ UNCHANGED coll_vars
    /\ UNCHANGED pipe_vars
    /\ UNCHANGED <<bt_vars, sr_vars, fr_vars>>

----------------------------------------------------------------------------
(* The paginated collectors                                                *)

\* the records of page p when it holds n of them
Rows(p, n) == [i \in 1 .. n |-> <<p, i>>]

CollNone == [kind |-> "none", exc |-> "", rows |-> <<>>]
CollReturn(rows) == [kind |-> "return", exc |-> "", rows |-> rows]
CollRaise(e) == [kind |-> "raise", exc |-> e, rows |-> <<>>]

\* variant: a page shorter than the largest one ends the collection
ShortPage(n) == n < MaxPageLen

\* `if not rows: break` / `if not items: break`
EmptyPage(n) == n = 0

\* `for page in range(1, max_pages + 1)`; the while True loops never end here
PageLoopCond(o, p, mp) == o = "search_repos_for_topic" => p <= mp

\* the loop head and the call of request_with_rate_limit for the next page
collector_request ==
    /\ op \in Collectors
    /\ cpc = "request"
    /\ PageLoopCond(op, page, max_pages)
    /\ page <= MaxPage
    /\ requested' = Append(requested, [page |-> page, per_page |-> PerPage])
    /\ EnterExecutor(DefaultMaxRetries, DefaultBackoff)
    /\ cpc' = "await"
    /\ UNCHANGED <<op, now, max_pages, page, all_rows, cret, served, answers>>
    /\ UNCHANGED pipe_vars
    /\ UNCHANGED <<bt_vars, sr_vars, fr_vars>>

\* search_repos_for_topic: the for loop is over, return all_items
search_pages_exhausted ==
    /\ op = "search_repos_for_topic"
    /\ cpc = "request"
    /\ ~PageLoopCond(op, page, max_pages)
    /\ cpc' = "done"
    /\ cret' = CollReturn(all_rows)
    /\ UNCHANGED <<op, exec_vars, max_pages, page, all_rows, requested, served,
                   answers>>
    /\ UNCHANGED pipe_vars
    /\ UNCHANGED <<bt_vars, sr_vars, fr_vars>>

\* the rest of an iteration once r.json() gave n records
TakePage(n) ==
    IF EmptyPage(n)
    THEN /\ cpc' = "done"
         /\ cret' = CollReturn(all_rows)
         /\ UNCHANGED <<page, all_rows>>
    ELSE /\ all_rows' = all_rows \o Rows(page, n)
         /\ page' = page + 1
         /\ cpc' = "request"
         /\ UNCHANGED cret

\* the executor did not hand a response back: it raised, or it returned
\* None, on which r.status_code raises AttributeError
NoResponse ==
    IF ret.kind = "raise"
    THEN /\ cpc' = "done"
         /\ cret' = CollRaise(ret.exc)
         /\ UNCHANGED <<page, all_rows>>
    ELSE /\ cpc' = "done"
         /\ cret' = CollRaise("AttributeError")
         /\ UNCHANGED <<page, all_rows>>

\* list_contributors, lines 22-32
list_contributors_page ==
    /\ op = "list_contributors"
    /\ cpc = "await"
    /\ epc \in {"returned", "raised"}
    /\ served' = Append(served, ret)
    /\ IF ret.kind /= "response"
       THEN NoResponse
       ELSE IF ret.resp.status /= 200 /\ RaisesForStatus(ret.resp)
       THEN /\ cpc' = "done"
            /\ cret' = CollRaise("HTTPError")
            /\ UNCHANGED <<page, all_rows>>
       ELSE IF ret.resp.body = NoJson
       THEN /\ cpc' = "done"
            /\ cret' = CollRaise("JSONDecodeError")
            /\ UNCHANGED <<page, all_rows>>
       ELSE TakePage(ret.resp.body)
    /\ UNCHANGED <<op, exec_vars, max_pages, requested, answers>>
    /\ UNCHANGED pipe_vars
    /\ UNCHANGED <<bt_vars, sr_vars, fr_vars>>

\* a collector that leaves its loop on a status other than 200
BreakOnFailure ==
    IF ret.kind /= "response"
    THEN NoResponse
    ELSE IF ret.resp.status /= 200
    THEN /\ cpc' = "done"
         /\ cret' = CollReturn(all_rows)
         /\ UNCHANGED <<page, all_rows>>
    ELSE TakePage(ret.resp.body)

\* list_pull_requests, lines 63-72
list_pull_requests_page ==
    /\ op = "list_pull_requests"
    /\ cpc = "await"
    /\ epc \in {"returned", "raised"}
    /\ served' = Append(served, ret)
    /\ BreakOnFailure
    /\ UNCHANGED <<op, exec_vars, max_pages, requested, answers>>
    /\ UNCHANGED pipe_vars
    /\ UNCHANGED <<bt_vars, sr_vars, fr_vars>>

\* search_repos_for_topic, lines 25-37
search_repos_for_topic_page ==
    /\ op = "search_repos_for_topic"
    /\ cpc = "await"
    /\ epc \in {"returned", "raised"}
    /\ served' = Append(served, ret)
    /\ BreakOnFailure
    /\ UNCHANGED <<op, exec_vars, max_pages, requested, answers>>
    /\ UNCHANGED pipe_vars
    /\ UNCHANGED <<bt_vars, sr_vars, fr_vars>>

----------------------------------------------------------------------------
(* run.py: main                                                            *)
(* The steps main calls (scrape_repo, find_repos_by_topics, ...) either    *)
(* return or raise; which of the two is the choice of the remote API and   *)
(* the disk, so each action takes it as an input.                          *)

\* run.py:46-49
Targets == <<"sgl-project/sglang", "vllm-project/vllm">>


\* the value a step returned, and the {"error": str(e)} of a step
Summary(step) == [kind |-> "summary", from |-> step]
Error(step) == [kind |-> "error", from |-> step]

EmptyMap == [k \in {} |-> 0]

\* d[k] = v on a Python dict
Put(d, k, v) == [x \in DOMAIN d \cup {k} |-> IF x = k THEN v ELSE d[x]]


\* variant: no try/except around scrape_repo
TargetErrorPropagates == FALSE
\* run.py:69-74: the exception of scrape_repo is caught per target
TargetErrorCaught == TRUE

\* manifest["outputs"][key] = v
Assign(key, v) ==
    /\ manifest' = Put(manifest, key, v)
    /\ assigned' = Append(assigned, key)

\* run.py:66-74: one iteration of `for owner, repo in targets`
main_scrape_repo ==
    /\ op = "main"
    /\ mpc = "targets"
    /\ ti <= Len(Targets)
    /\ \E res \in {"ok", "failed"} :
         /\ outcome' = Put(outcome, Targets[ti], res)
         /\ IF res = "ok"
            THEN /\ Assign(Targets[ti], Summary(Targets[ti]))
                 /\ ti' = ti + 1
                 /\ mpc' = IF ti = Len(Targets) THEN "discover" ELSE "targets"
            ELSE IF TargetErrorCaught
            THEN /\ Assign(Targets[ti], Error(Targets[ti]))
                 /\ ti' = ti + 1
                 /\ mpc' = IF ti = Len(Targets) THEN "discover" ELSE "targets"
            ELSE /\ mpc' = "crashed"
                 /\ UNCHANGED <<ti, manifest, assigned>>
    /\ UNCHANGED <<op, http_vars, written>>
    /\ UNCHANGED <<agg_vars, su_vars, prs_vars, nz_vars>>
    /\ UNCHANGED <<bt_vars, sr_vars, fr_vars>>

\* run.py:78-80 and 99-101: find_repos_by_topics inside the outer try
main_find_repos ==
    /\ op = "main"
    /\ mpc = "discover"
    /\ \E res \in {"ok", "failed"} :
         /\ outcome' = Put(outcome, "discovered_repos", res)
         /\ IF res = "ok"
            THEN /\ Assign("discovered_repos", Summary("discovered_repos"))
                 /\ mpc' = "prs"
            ELSE /\ Assign("discovered_repos", Error("discovered_repos"))
                 /\ mpc' = "save"
    /\ UNCHANGED <<op, http_vars, ti, written>>
    /\ UNCHANGED <<agg_vars, su_vars, prs_vars, nz_vars>>
    /\ UNCHANGED <<bt_vars, sr_vars, fr_vars>>

\* run.py:82-83 and 99-101: scrape_repos_prs inside the same outer try,
\* whose handler writes the key discovered_repos
main_scrape_prs ==
    /\ op = "main"
    /\ mpc = "prs"
    /\ \E res \in {"ok", "failed"} :
         /\ outcome' = Put(outcome, "discovered_repos_prs", res)
         /\ IF res = "ok"
            THEN /\ Assign("discovered_repos_prs", Summary("discovered_repos_prs"))
                 /\ mpc' = "users"
            ELSE /\ Assign("discovered_repos", Error("discovered_repos_prs"))
                 /\ mpc' = "save"
    /\ UNCHANGED <<op, http_vars, ti, written>>
    /\ UNCHANGED <<agg_vars, su_vars, prs_vars, nz_vars>>
    /\ UNCHANGED <<bt_vars, sr_vars, fr_vars>>

\* run.py:85-90
main_scrape_users ==
    /\ op = "main"
    /\ mpc = "users"
    /\ \E res \in {"ok", "failed"} :
         /\ outcome' = Put(outcome, "pr_users_index", res)
         /\ Assign("pr_users_index",
                   IF res = "ok" THEN Summary("pr_users_index")
                                 ELSE Error("pr_users_index"))
         /\ mpc' = "aggregate"
    /\ UNCHANGED <<op, http_vars, ti, written>>
    /\ UNCHANGED <<agg_vars, su_vars, prs_vars, nz_vars>>
    /\ UNCHANGED <<bt_vars, sr_vars, fr_vars>>

\* run.py:93-98
main_aggregate ==
    /\ op = "main"
    /\ mpc = "aggregate"
    /\ \E res \in {"ok", "failed"} :
         /\ outcome' = Put(outcome, "all_contributors_master_csv", res)
         /\ Assign("all_contributors_master_csv",
                   IF res = "ok" THEN Summary("all_contributors_master_csv")
                                 ELSE Error("all_contributors_master_csv"))
         /\ mpc' = "save"
    /\ UNCHANGED <<op, http_vars, ti, written>>
    /\ UNCHANGED <<agg_vars, su_vars, prs_vars, nz_vars>>
    /\ UNCHANGED <<bt_vars, sr_vars, fr_vars>>

\* run.py:104-105
main_save_manifest ==
    /\ op = "main"
    /\ mpc = "save"
    /\ written' = [done |-> TRUE, content |-> manifest]
    /\ mpc' = "done"
    /\ UNCHANGED <<op, http_vars, ti, manifest, outcome, assigned>>
    /\ UNCHANGED <<agg_vars, su_vars, prs_vars, nz_vars>>
    /\ UNCHANGED <<bt_vars, sr_vars, fr_vars>>

----------------------------------------------------------------------------
(* topic_scrape.py: aggregate_contributors_master                          *)

\* Python None in a column
Null == "<None>"

\* the names an entry of the parent directory can have, in sorted() order
DirNames == <<"llm", "vllm">>

\* a file of a subdirectory: absent, unreadable by pd.read_csv, or a table
FileAbsent == [state |-> "absent", rows |-> 0]
FileUnreadable == [state |-> "unreadable", rows |-> 0]
Table(n) == [state |-> "table", rows |-> n]

\* an entry of the parent directory: missing, a plain file, or a directory
EntryMissing == [kind |-> "missing", contributors |-> FileAbsent, users |-> FileAbsent]
EntryFile == [kind |-> "file", contributors |-> FileAbsent, users |-> FileAbsent]
EntryDir(c, u) == [kind |-> "dir", contributors |-> c, users |-> u]
FileStates == {FileAbsent, FileUnreadable} \cup {Table(n) : n \in 0 .. MaxRows}
Entries == {EntryMissing, EntryFile}
             \cup {EntryDir(c, u) : c \in FileStates, u \in FileStates}

DirIndexes == 1 .. Len(DirNames)

\* the descriptors find_repos_by_topics may have saved
Descriptors ==
    { [full_name |-> "o1/llm", owner |-> "o1", name |-> "llm",
       topics |-> <<"ai", "llm">>, matched_topics |-> <<"llm">>],
      [full_name |-> "o2/llm", owner |-> "o2", name |-> "llm",
       topics |-> <<>>, matched_topics |-> <<"mlops">>],
      [full_name |-> "o1/vllm", owner |-> "o1", name |-> "vllm",
       topics |-> <<"serving">>, matched_topics |-> <<"llm", "mlops">>] }

\* the maps keyed by full name, as ordered lists of their values
ReposMaps ==
    UNION { { m \in [1 .. n -> Descriptors] :
                \A i, j \in 1 .. n : i /= j => m[i].full_name /= m[j].full_name }
            : n \in 0 .. MaxRepos }

RECURSIVE SelectDirs(_, _)
\* sorted([p for p in prs_parent.iterdir() if p.is_dir()]), as indexes
SelectDirs(f, i) ==
    IF i > Len(DirNames) THEN <<>>
    ELSE (IF f[i].kind = "dir" THEN <<i>> ELSE <<>>) \o SelectDirs(f, i + 1)


\* variant: users.csv is preferred
ChosenFileUsersFirst(e) ==
    IF e.users.state /= "absent" THEN "users.csv"
    ELSE IF e.contributors.state /= "absent" THEN "contributors.csv"
    ELSE "none"

\* lines 343-347: contributors.csv if it exists, else users.csv if it exists
ChosenFile(e) ==
    IF e.contributors.state /= "absent" THEN "contributors.csv"
    ELSE IF e.users.state /= "absent" THEN "users.csv"
    ELSE "none"

FileOf(e, file) == IF file = "contributors.csv" THEN e.contributors ELSE e.users

\* pd.read_csv: row i of the table keeps its original columns
ReadCsv(name, file, n) == [i \in 1 .. n |-> [dir |-> name, file |-> file, i |-> i]]

RECURSIVE Join(_)
\* ','.join(list)
Join(sq) ==
    IF sq = <<>> THEN <<>>
    ELSE IF Len(sq) = 1 THEN sq
    ELSE <<Head(sq), ",">> \o Join(Tail(sq))

RECURSIVE MatchFrom(_, _, _)
\* lines 357-360: the index of the first descriptor named name, 0 if none
MatchFrom(rm, name, i) ==
    IF i > Len(rm) THEN 0
    ELSE IF rm[i].name = name THEN i
    ELSE MatchFrom(rm, name, i + 1)

\* variant: the last descriptor of that name wins
LastMatch(rm, name) ==
    IF \E i \in 1 .. Len(rm) : rm[i].name = name
    THEN CHOOSE i \in 1 .. Len(rm) :
            /\ rm[i].name = name
            /\ \A j \in 1 .. Len(rm) : rm[j].name = name => j <= i
    ELSE 0

FirstMatch(rm, name) == MatchFrom(rm, name, 1)

\* lines 362-365
Meta(rm, name) ==
    LET m == FirstMatch(rm, name)
    IN  IF m = 0
        THEN [full_name |-> Null, owner |-> Null,
              topics |-> <<>>, matched_topics |-> <<>>]
        ELSE [full_name |-> rm[m].full_name, owner |-> rm[m].owner,
              topics |-> Join(rm[m].topics),
              matched_topics |-> Join(rm[m].matched_topics)]

\* lines 367-372: the six columns added to every row of the table
Augment(df, name, meta) ==
    [i \in DOMAIN df |->
        [src |-> df[i], repo_dir |-> name, repo_name |-> name,
         full_name |-> meta.full_name, owner |-> meta.owner,
         topics |-> meta.topics, matched_topics |-> meta.matched_topics]]

\* variant: the check of line 377 is missing
NoTablesIgnored(tables) == FALSE
\* `if not rows`
NoTables(tables) == tables = <<>>

\* variant: the read error of pd.read_csv is not handled
ReadErrorPropagates == FALSE
\* lines 348-352
ReadErrorCaught == TRUE


RECURSIVE KeepMatched(_)
KeepMatched(df) ==
    IF df = <<>> THEN <<>>
    ELSE (IF Head(df).full_name = Null THEN <<>> ELSE <<Head(df)>>)
            \o KeepMatched(Tail(df))

RECURSIVE ConcatMatchedOnly(_)
\* variant: rows without a descriptor are dropped
ConcatMatchedOnly(tables) ==
    IF tables = <<>> THEN <<>>
    ELSE KeepMatched(Head(tables)) \o ConcatMatchedOnly(Tail(tables))

RECURSIVE Concat(_)
\* pd.concat(rows, ignore_index=True, sort=False)
Concat(tables) ==
    IF tables = <<>> THEN <<>> ELSE Head(tables) \o Concat(Tail(tables))

\* lines 332-337: a missing or unreadable repos_by_topic.json gives {}
LoadReposMap(state, content) == IF state = "ok" THEN content ELSE <<>>

\* how a function ended: not yet, by returning, or by raising e
NoOutcome == [kind |-> "none", exc |-> ""]
Returned == [kind |-> "return", exc |-> ""]
Raised(e) == [kind |-> "raise", exc |-> e]


\* lines 342-375: one iteration of the loop over the subdirectories
agg_repo_dir ==
    /\ op = "aggregate"
    /\ apc = "scan"
    /\ parent_exists
    /\ agg_i <= Len(SelectDirs(fs, 1))
    /\ LET d == SelectDirs(fs, 1)[agg_i]
           name == DirNames[d]
           file == ChosenFile(fs[d])
           st == FileOf(fs[d], file)
           rm == LoadReposMap(repos_json, repos_map)
       IN  IF file = "none"
           THEN /\ agg_i' = agg_i + 1
                /\ UNCHANGED <<agg_rows, repo_csv_count, apc, agg_ret>>
           ELSE IF st.state = "unreadable"
           THEN IF ReadErrorCaught
                THEN /\ agg_i' = agg_i + 1
                     /\ UNCHANGED <<agg_rows, repo_csv_count, apc, agg_ret>>
                ELSE /\ apc' = "done"
                     /\ agg_ret' = Raised("ParserError")
                     /\ UNCHANGED <<agg_i, agg_rows, repo_csv_count>>
           ELSE /\ agg_rows' = Append(agg_rows,
                                 Augment(ReadCsv(name, file, st.rows), name,
                                         Meta(rm, name)))
                /\ repo_csv_count' = repo_csv_count + 1
                /\ agg_i' = agg_i + 1
                /\ UNCHANGED <<apc, agg_ret>>
    /\ UNCHANGED <<op, http_vars, main_vars, su_vars, prs_vars, nz_vars,
                   parent_exists, fs, repos_json,
                   repos_map, master>>
    /\ UNCHANGED <<bt_vars, sr_vars, fr_vars>>

\* lines 377-385: the loop is over (or the parent directory does not exist)
agg_finish ==
    /\ op = "aggregate"
    /\ apc = "scan"
    /\ ~parent_exists \/ agg_i > Len(SelectDirs(fs, 1))
    /\ IF NoTables(agg_rows)
       THEN /\ agg_ret' = Raised("RuntimeError")
            /\ UNCHANGED master
       ELSE /\ master' = [done |-> TRUE, rows |-> Concat(agg_rows)]
            /\ agg_ret' = Returned
    /\ apc' = "done"
    /\ UNCHANGED <<op, http_vars, main_vars, su_vars, prs_vars, nz_vars,
                   parent_exists, fs, repos_json,
                   repos_map, agg_i, agg_rows, repo_csv_count>>
    /\ UNCHANGED <<bt_vars, sr_vars, fr_vars>>

----------------------------------------------------------------------------
(* topic_scrape.py: scrape_users_from_prs; github_scrape.py: users_details  *)

\* the `user` / `merged_by` value of a saved pull request
NoActor == [shape |-> "none", login |-> Null]
ActorStr(l) == [shape |-> "str", login |-> l]
ActorDict(l) == [shape |-> "dict", login |-> l]

\* the saved pull requests a pull_requests.json may hold
PRs ==
    { [user |-> ActorDict("alice"), merged_by |-> NoActor],
      [user |-> ActorStr("bob"), merged_by |-> ActorDict("alice")],
      [user |-> ActorDict(Null), merged_by |-> ActorStr("bob")] }


\* an entry of the PR parent directory
PrMissing == [kind |-> "missing", prs |-> "absent", pr_rows |-> <<>>]
PrPlainFile == [kind |-> "file", prs |-> "absent", pr_rows |-> <<>>]
PrDirNoFile == [kind |-> "dir", prs |-> "absent", pr_rows |-> <<>>]
PrDirUnparsable == [kind |-> "dir", prs |-> "unparsable", pr_rows |-> <<>>]
PrDir(rows) == [kind |-> "dir", prs |-> "ok", pr_rows |-> rows]
PrEntries == {PrMissing, PrPlainFile, PrDirNoFile, PrDirUnparsable}
                \cup {PrDir(rows) : rows \in UNION { [1 .. n -> PRs] : n \in 0 .. MaxPRs }}

RECURSIVE SelectListed(_, _)
\* sorted(os.listdir(prs_parent_dir)), as indexes
SelectListed(f, i) ==
    IF i > Len(DirNames) THEN <<>>
    ELSE (IF f[i].kind /= "missing" THEN <<i>> ELSE <<>>)
            \o SelectListed(f, i + 1)


\* lines 226-230 and 233-237: the logins one actor value adds
ActorLogins(a) ==
    IF a.shape = "dict"
    THEN IF a.login /= Null /\ a.login /= "" THEN {a.login} ELSE {}
    ELSE IF a.shape = "str" THEN {a.login}
    ELSE {}

\* lines 222-237
CollectLogins(rows) ==
    UNION { ActorLogins(rows[k].user) \cup ActorLogins(rows[k].merged_by)
            : k \in 1 .. Len(rows) }

\* the logins in sorted() order
LoginOrder == <<"alice", "bob">>

RECURSIVE SortFrom(_, _)
SortFrom(S, i) ==
    IF i > Len(LoginOrder) THEN <<>>
    ELSE (IF LoginOrder[i] \in S THEN <<LoginOrder[i]>> ELSE <<>>)
            \o SortFrom(S, i + 1)


\* what one request of users_details comes to: a 200 with a profile, a 200
\* whose body is not JSON, a response of another status, None from the
\* executor, or the executor's RuntimeError
UserOutcomes == {"profile", "badjson", "status", "none", "raise"}



\* lines 208-245: one entry of the listing, up to the call of users_details
su_entry ==
    /\ op = "scrape_users_from_prs"
    /\ su_pc = "scan"
    /\ su_i <= Len(SelectListed(prs_fs, 1))
    /\ LET d == SelectListed(prs_fs, 1)[su_i]
           e == prs_fs[d]
           lg == SortFrom({l \in CollectLogins(e.pr_rows) : l /= ""}, 1)
       IN  IF e.kind /= "dir" \/ e.prs /= "ok"
           THEN /\ su_i' = su_i + 1
                /\ UNCHANGED <<su_pc, logins_list, ud_j, user_rows, results>>
           ELSE IF lg = <<>>
           THEN /\ results' = Put(results, DirNames[d],
                                  [users_fetched |-> 0, saved |-> FALSE,
                                   logins_requested |-> <<>>])
                /\ su_i' = su_i + 1
                /\ UNCHANGED <<su_pc, logins_list, ud_j, user_rows>>
           ELSE /\ logins_list' = lg
                /\ ud_j' = 1
                /\ user_rows' = <<>>
                /\ su_pc' = "users"
                /\ UNCHANGED <<su_i, results>>
    /\ UNCHANGED <<op, http_vars, main_vars, agg_vars, prs_vars, nz_vars, prs_fs, repo_files,
                   users_index, su_ret, fetched>>
    /\ UNCHANGED <<bt_vars, sr_vars, fr_vars>>

\* github_scrape.py lines 44-57: one iteration of the loop of users_details
users_details_login ==
    /\ op = "scrape_users_from_prs"
    /\ su_pc = "users"
    /\ ud_j <= Len(logins_list)
    /\ LET login == logins_list[ud_j]
       IN  IF login = ""
           THEN /\ ud_j' = ud_j + 1
                /\ UNCHANGED <<user_rows, su_pc, su_ret, fetched>>
           ELSE /\ fetched' = Append(fetched, login)
                /\ \E o \in UserOutcomes :
                      CASE o = "profile" ->
                             /\ user_rows' = Append(user_rows, login)
                             /\ ud_j' = ud_j + 1
                             /\ UNCHANGED <<su_pc, su_ret>>
                        [] o \in {"badjson", "status"} ->
                             /\ ud_j' = ud_j + 1
                             /\ UNCHANGED <<user_rows, su_pc, su_ret>>
                        [] o = "none" ->
                             /\ su_ret' = Raised("AttributeError")
                             /\ su_pc' = "done"
                             /\ UNCHANGED <<user_rows, ud_j>>
                        [] o = "raise" ->
                             /\ su_ret' = Raised("RuntimeError")
                             /\ su_pc' = "done"
                             /\ UNCHANGED <<user_rows, ud_j>>
    /\ UNCHANGED <<op, http_vars, main_vars, agg_vars, prs_vars, nz_vars, prs_fs, su_i, logins_list,
                   results, repo_files, users_index>>
    /\ UNCHANGED <<bt_vars, sr_vars, fr_vars>>

\* lines 247-272: users_details has returned; the files of the directory
su_save ==
    /\ op = "scrape_users_from_prs"
    /\ su_pc = "users"
    /\ ud_j > Len(logins_list)
    /\ LET d == SelectListed(prs_fs, 1)[su_i]
       IN  /\ repo_files' = [repo_files EXCEPT
                                ![d] = [written |-> TRUE, rows |-> user_rows]]
           /\ results' = Put(results, DirNames[d],
                             [users_fetched |-> Len(user_rows), saved |-> TRUE,
                              logins_requested |-> logins_list])
    /\ su_i' = su_i + 1
    /\ su_pc' = "scan"
    /\ UNCHANGED <<op, http_vars, main_vars, agg_vars, prs_vars, nz_vars, prs_fs, logins_list, ud_j,
                   user_rows, users_index, su_ret, fetched>>
    /\ UNCHANGED <<bt_vars, sr_vars, fr_vars>>

\* lines 304-308: the listing is over
su_finish ==
    /\ op = "scrape_users_from_prs"
    /\ su_pc = "scan"
    /\ su_i > Len(SelectListed(prs_fs, 1))
    /\ users_index' = [done |-> TRUE, content |-> results]
    /\ su_ret' = Returned
    /\ su_pc' = "done"
    /\ UNCHANGED <<op, http_vars, main_vars, agg_vars, prs_vars, nz_vars, prs_fs, su_i, logins_list,
                   ud_j, user_rows, results, repo_files, fetched>>
    /\ UNCHANGED <<bt_vars, sr_vars, fr_vars>>

----------------------------------------------------------------------------
(* topic_scrape.py: is_human_user; scrape_repos_prs, the record of a PR     *)

\* a JSON value of an object: the key is absent, null, or a string, the
\* string given as its characters
KeyAbsent == [kind |-> "absent", chars |-> <<>>]
JsonNull == [kind |-> "null", chars |-> <<>>]
Str(chars) == [kind |-> "str", chars |-> chars]

\* the logins tried
LoginTexts ==
    { <<"a", "l", "i", "c", "e">>,
      <<"d", "e", "p", "[", "b", "o", "t", "]">>,
      <<"D", "e", "p", "[", "B", "O", "T", "]">>,
      <<"r", "e", "n", "-", "b", "o", "t">>,
      <<"R", "o", "B", "o", "T">>,
      <<"b", "o", "t">>,
      <<"b", "o", "t", "s">>,
      <<"o", "t">>,
      <<>> }

UserType == <<"U", "s", "e", "r">>

\* the account types tried
TypeTexts ==
    { UserType, <<"B", "o", "t">>, <<"u", "s", "e", "r">>,
      <<"O", "r", "g">> }

\* an actor: null, the empty object, or an object with other keys and maybe
\* a type and a login
ActorNull ==
    [obj |-> "null", type |-> KeyAbsent, login |-> KeyAbsent, text |-> <<>>]
ActorEmpty ==
    [obj |-> "empty", type |-> KeyAbsent, login |-> KeyAbsent, text |-> <<>>]
ActorObj(t, l) == [obj |-> "dict", type |-> t, login |-> l, text |-> <<>>]
\* a `user` value that is a string, as in a saved pull-request record
ActorText(chars) ==
    [obj |-> "str", type |-> KeyAbsent, login |-> KeyAbsent, text |-> chars]

Actors ==
    {ActorNull, ActorEmpty}
      \cup { ActorObj(t, l) :
               t \in {KeyAbsent, JsonNull} \cup {Str(x) : x \in TypeTexts},
               l \in {KeyAbsent, JsonNull} \cup {Str(x) : x \in LoginTexts} }

\* str.lower() on one character
LowerChar(c) ==
    LET upper == <<"B", "D", "O", "R", "T", "U">>
        lower == <<"b", "d", "o", "r", "t", "u">>
    IN  IF \E i \in 1 .. Len(upper) : upper[i] = c
        THEN lower[CHOOSE i \in 1 .. Len(upper) : upper[i] = c]
        ELSE c

\* str.lower()
Lower(s) == [i \in 1 .. Len(s) |-> LowerChar(s[i])]

\* str.endswith(suffix)
EndsWith(s, suffix) ==
    /\ Len(s) >= Len(suffix)
    /\ SubSeq(s, Len(s) - Len(suffix) + 1, Len(s)) = suffix

\* dict.get(key): an absent key gives None
Get(v) == IF v.kind = "absent" THEN JsonNull ELSE v

\* dict.get(key, ""): an absent key gives the default, a null stays null
GetOrEmpty(v) == IF v.kind = "absent" THEN Str(<<>>) ELSE v

HumanReturn(b) == [kind |-> "return", exc |-> "", val |-> b]
HumanRaise(e) == [kind |-> "raise", exc |-> e, val |-> FALSE]

\* line 85
BotSuffix(s) ==
    \/ EndsWith(Lower(s), <<"[", "b", "o", "t", "]">>)
    \/ EndsWith(Lower(s), <<"b", "o", "t">>)

\* lines 76-87
is_human_user(user_obj) ==
    IF user_obj.obj \in {"null", "empty"} THEN HumanReturn(FALSE)
    ELSE IF user_obj.obj = "str"
    THEN IF user_obj.text = <<>> THEN HumanReturn(FALSE)
         ELSE HumanRaise("AttributeError")
    ELSE IF Get(user_obj.type) /= Str(UserType) THEN HumanReturn(FALSE)
    ELSE LET login == GetOrEmpty(user_obj.login)
         IN  IF login.kind = "null" THEN HumanRaise("AttributeError")
             ELSE IF BotSuffix(login.chars) THEN HumanReturn(FALSE)
             ELSE HumanReturn(TRUE)

\* a pull request of the listing: its author and the fields copied over
PullRequests ==
    { [user |-> a, state |-> s, merged_at |-> m] :
        a \in Actors,
        s \in {Str(<<"o">>), Str(<<"c">>)},
        m \in {JsonNull, Str(<<"t">>)} }


\* line 153: pr.get("user") or {}
AuthorOf(p) ==
    IF p.user.obj = "dict" \/ (p.user.obj = "str" /\ p.user.text /= <<>>)
    THEN p.user
    ELSE ActorEmpty

\* lines 155-166
Record(p, human) ==
    [user |-> Get(AuthorOf(p).login), user_type |-> Get(AuthorOf(p).type),
     is_human |-> human, state |-> Get(p.state),
     merged_at |-> Get(p.merged_at)]



\* lines 152-169: one pull request of the listing
scrape_repos_prs_record ==
    /\ op = "scrape_repos_prs"
    /\ ppc = "loop"
    /\ pr_i <= Len(prs)
    /\ LET p == prs[pr_i]
           h == is_human_user(AuthorOf(p))
       IN  /\ classified' = Append(classified, h)
           /\ IF h.kind = "raise"
              THEN /\ prs_ret' = Raised(h.exc)
                   /\ ppc' = "done"
                   /\ UNCHANGED <<pr_i, pr_records, human_logins>>
              ELSE /\ pr_records' = Append(pr_records, Record(p, h.val))
                   /\ human_logins' =
                         IF h.val
                         THEN human_logins \cup {Get(AuthorOf(p).login)}
                         ELSE human_logins
                   /\ pr_i' = pr_i + 1
                   /\ UNCHANGED <<ppc, prs_ret>>
    /\ UNCHANGED <<op, http_vars, main_vars, agg_vars, su_vars, nz_vars, prs, prs_json>>
    /\ UNCHANGED <<bt_vars, sr_vars, fr_vars>>

\* lines 170-172: the listing is over, pull_requests.json is saved
scrape_repos_prs_save ==
    /\ op = "scrape_repos_prs"
    /\ ppc = "loop"
    /\ pr_i > Len(prs)
    /\ prs_json' = [done |-> TRUE, records |-> pr_records]
    /\ prs_ret' = Returned
    /\ ppc' = "done"
    /\ UNCHANGED <<op, http_vars, main_vars, agg_vars, su_vars, nz_vars, prs, pr_i, pr_records,
                   human_logins, classified>>
    /\ UNCHANGED <<bt_vars, sr_vars, fr_vars>>

----------------------------------------------------------------------------
(* github_scrape.py: to_dataframe_contributors, to_dataframe_users;         *)
(* topic_scrape.py: the record of a pull request, applied to its own output *)

\* a JSON number, given as its digits
JsonInt(digits) == [kind |-> "int", chars |-> digits]

\* dict.get(key) on a JSON object given as a function of its keys
DictGet(d, k) == IF k \in DOMAIN d THEN d[k] ELSE JsonNull

\* the raw contributor records tried: a user, an anonymous contributor with
\* a name, a null login beside a name and a non-integer id, an empty login,
\* and a record with neither login nor name
RawContributors ==
    { [login |-> Str(<<"a">>), type |-> Str(<<"U">>),
       contributions |-> JsonInt(<<"5">>), id |-> JsonInt(<<"7">>),
       html_url |-> Str(<<"h">>), avatar_url |-> Str(<<"v">>)],
      [name |-> Str(<<"J">>), email |-> Str(<<"e">>),
       type |-> Str(<<"A">>), contributions |-> JsonInt(<<"1">>)],
      [login |-> JsonNull, name |-> Str(<<"J">>), id |-> Str(<<"7">>)],
      [login |-> Str(<<>>), name |-> Str(<<"J">>)],
      [contributions |-> JsonInt(<<"2">>)] }

\* variant: the name is never used
NormalLoginNoFallback(rec) == DictGet(rec, "login")

\* lines 66 and 73-74: the login of the record, or its name when that is None
NormalLogin(rec) ==
    IF DictGet(rec, "login") = JsonNull THEN DictGet(rec, "name")
    ELSE DictGet(rec, "login")

\* lines 65-75
ContributorRecord(rec) ==
    [login |-> NormalLogin(rec),
     type |-> DictGet(rec, "type"),
     contributions |-> DictGet(rec, "contributions"),
     id |-> IF DictGet(rec, "id").kind = "int" THEN DictGet(rec, "id")
            ELSE JsonNull,
     html_url |-> DictGet(rec, "html_url")]

\* lines 60-77; the empty DataFrame has no rows
to_dataframe_contributors(rows) ==
    IF rows = <<>> THEN <<>>
    ELSE [i \in 1 .. Len(rows) |-> ContributorRecord(rows[i])]

\* line 82
keep ==
    <<"login", "name", "company", "blog", "location", "email", "hireable",
      "bio", "twitter_username", "public_repos", "followers", "following",
      "created_at", "updated_at">>

\* the raw user records tried: a profile with keys outside the list, a
\* profile holding a login only, and one without any key of the list
RawUsers ==
    { [login |-> Str(<<"a">>), name |-> Str(<<"A">>), company |-> JsonNull,
       public_repos |-> JsonInt(<<"3">>), id |-> JsonInt(<<"7">>),
       avatar_url |-> Str(<<"v">>)],
      [login |-> Str(<<"b">>)],
      [site_admin |-> Str(<<"f">>)] }

\* variant: every key of the source is copied too
UserRecordAllKeys(rec) ==
    [k \in {keep[i] : i \in 1 .. Len(keep)} \cup DOMAIN rec |-> DictGet(rec, k)]

\* line 83: {k: r.get(k) for k in keep}
UserRecord(rec) == [k \in {keep[i] : i \in 1 .. Len(keep)} |-> DictGet(rec, k)]

\* lines 79-83
to_dataframe_users(rows) ==
    IF rows = <<>> THEN <<>>
    ELSE [i \in 1 .. Len(rows) |-> UserRecord(rows[i])]

\* the lists of raw records tried
RecordLists(S) == UNION { [1 .. n -> S] : n \in 0 .. MaxRecords }

AsPullRequest(rec) ==
    [user |-> IF rec.user.kind = "null" THEN ActorNull
              ELSE ActorText(rec.user.chars), state |-> rec.state,
     merged_at |-> rec.merged_at]


\* topic_scrape.py lines 153-166 on one pull request
PrRecordOf(p) ==
    LET h == is_human_user(AuthorOf(p))
    IN  IF h.kind = "raise" THEN CollRaise(h.exc)
        ELSE CollReturn(<<Record(p, h.val)>>)

\* the result is stored as the first or the second application
StoreResult(res) ==
    IF nz_pc = "raw"
    THEN nz_out' = res /\ nz_pc' = "once" /\ UNCHANGED nz_again
    ELSE nz_again' = res /\ nz_pc' = "twice" /\ UNCHANGED nz_out

\* to_dataframe_contributors on the raw list, then on its own rows
apply_to_dataframe_contributors ==
    /\ op = "normalize"
    /\ nz_kind = "contributors"
    /\ nz_pc \in {"raw", "once"}
    /\ StoreResult(CollReturn(to_dataframe_contributors(
                           IF nz_pc = "raw" THEN nz_in ELSE nz_out.rows)))
    /\ UNCHANGED <<op, http_vars, main_vars, agg_vars, su_vars, prs_vars, nz_kind, nz_in>>
    /\ UNCHANGED <<bt_vars, sr_vars, fr_vars>>

\* to_dataframe_users on the raw list, then on its own rows
apply_to_dataframe_users ==
    /\ op = "normalize"
    /\ nz_kind = "users"
    /\ nz_pc \in {"raw", "once"}
    /\ StoreResult(CollReturn(to_dataframe_users(
                           IF nz_pc = "raw" THEN nz_in ELSE nz_out.rows)))
    /\ UNCHANGED <<op, http_vars, main_vars, agg_vars, su_vars, prs_vars, nz_kind, nz_in>>
    /\ UNCHANGED <<bt_vars, sr_vars, fr_vars>>

\* the record construction on a pull request, then on its own record
apply_pr_record ==
    /\ op = "normalize"
    /\ nz_kind = "pull_request"
    /\ \/ nz_pc = "raw"
       \/ nz_pc = "once" /\ nz_out.kind = "return"
    /\ StoreResult(PrRecordOf(IF nz_pc = "raw" THEN nz_in[1]
                              ELSE AsPullRequest(nz_out.rows[1])))
    /\ UNCHANGED <<op, http_vars, main_vars, agg_vars, su_vars, prs_vars, nz_kind, nz_in>>
    /\ UNCHANGED <<bt_vars, sr_vars, fr_vars>>

----------------------------------------------------------------------------
(* run.py lines 80-98: from the discovered repositories to the master table *)
(* Each directory of the PR parent is followed by the repository whose      *)
(* pull requests its files were derived from.                               *)


\* topic_scrape.py lines 143-171: one repository of scrape_repos_prs; its
\* pull_requests.json goes to the directory named by the bare name
by_topics_scrape_prs ==
    /\ op = "discovered_repos"
    /\ bt_pc = "prs"
    /\ bt_i <= Len(repos_map)
    /\ pr_origin' = [pr_origin EXCEPT
                        ![CHOOSE d \in DirIndexes :
                             DirNames[d] = repos_map[bt_i].name] =
                            repos_map[bt_i].full_name]
    /\ bt_i' = bt_i + 1
    /\ UNCHANGED <<op, http_vars, pipe_vars, bt_pc, csv_origin, bt_master,
                   bt_ret>>
    /\ UNCHANGED <<sr_vars, fr_vars>>

\* topic_scrape.py lines 208-264: scrape_users_from_prs writes the
\* contributors.csv of every directory from its pull_requests.json
by_topics_scrape_users ==
    /\ op = "discovered_repos"
    /\ bt_pc = "prs"
    /\ bt_i > Len(repos_map)
    /\ csv_origin' = pr_origin
    /\ bt_pc' = "aggregate"
    /\ UNCHANGED <<op, http_vars, pipe_vars, bt_i, pr_origin, bt_master,
                   bt_ret>>
    /\ UNCHANGED <<sr_vars, fr_vars>>

RECURSIVE MasterRowsFrom(_, _, _)
\* topic_scrape.py lines 342-375: the rows of the directories, in sorted
\* order, each with the full name the aggregator attaches to it
MasterRowsFrom(origin, rm, d) ==
    IF d > Len(DirNames) THEN <<>>
    ELSE (IF origin[d] = Null THEN <<>>
          ELSE <<[repo_dir |-> DirNames[d],
                  full_name |-> Meta(rm, DirNames[d]).full_name,
                  origin |-> origin[d]]>>)
            \o MasterRowsFrom(origin, rm, d + 1)

\* topic_scrape.py lines 342-385: aggregate_contributors_master
by_topics_aggregate ==
    /\ op = "discovered_repos"
    /\ bt_pc = "aggregate"
    /\ LET tables == MasterRowsFrom(csv_origin, repos_map, 1)
       IN  IF NoTables(tables)
           THEN /\ bt_ret' = Raised("RuntimeError")
                /\ UNCHANGED bt_master
           ELSE /\ bt_master' = tables
                /\ bt_ret' = Returned
    /\ bt_pc' = "done"
    /\ UNCHANGED <<op, http_vars, pipe_vars, bt_i, pr_origin, csv_origin>>
    /\ UNCHANGED <<sr_vars, fr_vars>>

----------------------------------------------------------------------------
(* scrape_repo                                                             *)

\* what list_contributors hands to scrape_repo: a listing, or an exception
ListingOutcomes ==
    { CollReturn(rows) : rows \in RecordLists(RawContributors) }
      \cup { CollRaise(e) : e \in {"HTTPError", "JSONDecodeError",
                                    "RuntimeError", "AttributeError"} }

\* what contributor_stats hands to scrape_repo: the decoded document, a
\* list of n entries or a value that is not a list, or an exception
StatsOutcomes ==
    { [kind |-> "return", exc |-> "", list |-> TRUE, len |-> n] : n \in 0 .. 1 }
      \cup { [kind |-> "return", exc |-> "", list |-> FALSE, len |-> 0] }
      \cup { [kind |-> "raise", exc |-> e, list |-> FALSE, len |-> 0] :
                e \in {"HTTPError", "JSONDecodeError", "RuntimeError"} }

\* df[c] is defined: pd.DataFrame() has no column at all
HasColumn(df, c) == df /= <<>> /\ c \in DOMAIN df[1]

RECURSIVE UniqueFrom(_, _)
\* Series.unique(): the values from index i on, each at its first place
UniqueFrom(s, i) ==
    IF i > Len(s) THEN <<>>
    ELSE (IF \E j \in 1 .. i - 1 : s[j] = s[i] THEN <<>> ELSE <<s[i]>>)
            \o UniqueFrom(s, i + 1)

\* github_scrape.py line 101: the distinct str values of the login column
LoginsOf(df) ==
    LET IsStr(v) == v.kind = "str"
        col == SelectSeq([i \in 1 .. Len(df) |-> df[i].login], IsStr)
    IN  UniqueFrom([i \in 1 .. Len(col) |-> col[i].chars], 1)

\* the profile document of a login
Profile(login) ==
    [login |-> Str(login), name |-> JsonNull, id |-> JsonInt(<<"7">>)]

\* users_details on a list of logins, the lookup of the i-th one ending as
\* f[i]: an empty login is skipped, a lookup left without a response raises
UsersDetails(list, f) ==
    LET asked == { i \in 1 .. Len(list) : list[i] /= <<>> }
        broken == { i \in asked : f[i] \in {"none", "raise"} }
        first == CHOOSE i \in broken : \A j \in broken : i <= j
        Got(x) == x.chars /= <<>> /\ x.kind = "profile"
        tagged == SelectSeq([i \in 1 .. Len(list) |->
                                [chars |-> list[i], kind |-> f[i]]], Got)
    IN  IF broken /= {}
        THEN CollRaise(IF f[first] = "none" THEN "AttributeError"
                       ELSE "RuntimeError")
        ELSE CollReturn([i \in 1 .. Len(tagged) |-> Profile(tagged[i].chars)])

\* lines 86-93: the listing, its table and contributors.csv
scrape_repo_contributors ==
    /\ op = "scrape_repo"
    /\ sr_pc = "contributors"
    /\ sr_ret = NoOutcome
    /\ \E res \in ListingOutcomes :
         IF res.kind = "raise"
         THEN /\ sr_ret' = Raised(res.exc)
              /\ UNCHANGED <<sr_pc, contributors_rows, df_contrib, sr_files>>
         ELSE /\ contributors_rows' = res.rows
              /\ df_contrib' = to_dataframe_contributors(res.rows)
              /\ sr_files' = Put(sr_files, "contributors.csv",
                                 Len(to_dataframe_contributors(res.rows)))
              /\ sr_pc' = "stats"
              /\ UNCHANGED sr_ret
    /\ UNCHANGED <<stats_rows, logins, df_users, counts>>
    /\ UNCHANGED <<op, http_vars, pipe_vars, bt_vars, fr_vars>>

\* lines 96-98: the statistics and contributor_stats.json
scrape_repo_stats ==
    /\ op = "scrape_repo"
    /\ sr_pc = "stats"
    /\ sr_ret = NoOutcome
    /\ \E res \in StatsOutcomes :
         IF res.kind = "raise"
         THEN /\ sr_ret' = Raised(res.exc)
              /\ UNCHANGED <<sr_pc, stats_rows, sr_files>>
         ELSE /\ stats_rows' = res
              /\ sr_files' = Put(sr_files, "contributor_stats.json", res.len)
              /\ sr_pc' = "logins"
              /\ UNCHANGED sr_ret
    /\ UNCHANGED <<contributors_rows, df_contrib, logins, df_users, counts>>
    /\ UNCHANGED <<op, http_vars, pipe_vars, bt_vars, fr_vars>>

\* line 101: df_contrib["login"] and the logins taken from it
scrape_repo_logins ==
    /\ op = "scrape_repo"
    /\ sr_pc = "logins"
    /\ sr_ret = NoOutcome
    /\ IF HasColumn(df_contrib, "login")
       THEN /\ logins' = LoginsOf(df_contrib)
            /\ sr_pc' = "users"
            /\ UNCHANGED sr_ret
       ELSE /\ sr_ret' = Raised("KeyError")
            /\ UNCHANGED <<sr_pc, logins>>
    /\ UNCHANGED <<contributors_rows, df_contrib, stats_rows, df_users,
                   sr_files, counts>>
    /\ UNCHANGED <<op, http_vars, pipe_vars, bt_vars, fr_vars>>

\* lines 102-122: the profiles, users.csv and the summary
scrape_repo_users ==
    /\ op = "scrape_repo"
    /\ sr_pc = "users"
    /\ sr_ret = NoOutcome
    /\ \E f \in [1 .. Len(logins) -> UserOutcomes] :
         LET res == UsersDetails(logins, f)
         IN  IF res.kind = "raise"
             THEN /\ sr_ret' = Raised(res.exc)
                  /\ UNCHANGED <<sr_pc, df_users, sr_files, counts>>
             ELSE /\ df_users' = to_dataframe_users(res.rows)
                  /\ sr_files' = Put(sr_files, "users.csv",
                                     Len(to_dataframe_users(res.rows)))
                  /\ counts' = [contributors |-> Len(df_contrib),
                              users |-> Len(to_dataframe_users(res.rows)),
                              stats_entries |-> IF stats_rows.list
                                                THEN stats_rows.len ELSE 0]
                  /\ sr_ret' = Returned
                  /\ sr_pc' = "done"
    /\ UNCHANGED <<contributors_rows, df_contrib, stats_rows, logins>>
    /\ UNCHANGED <<op, http_vars, pipe_vars, bt_vars, fr_vars>>

----------------------------------------------------------------------------
(* topic_scrape.py: find_repos_by_topics                                   *)

\* the topic lists given to find_repos_by_topics
TopicLists == { <<>>, <<"llm">>, <<"vllm", "llm">>, <<"llm", "llm">> }

\* the items a repository search may hold: a repository, the same
\* repository with other counts, a second repository without an owner key
\* and without counts, that repository with a null owner, and items whose
\* full name is missing or empty.  Null stands for a missing key
SearchItems ==
    { [full_name |-> "o1/llm", owner |-> ActorDict("o1"), name |-> "llm",
       stargazers_count |-> "5", forks_count |-> "1"],
      [full_name |-> "o1/llm", owner |-> ActorDict("o1"), name |-> "llm",
       stargazers_count |-> "7", forks_count |-> Null],
      [full_name |-> "o2/llm", owner |-> ActorDict(Null), name |-> "llm",
       stargazers_count |-> Null, forks_count |-> Null],
      [full_name |-> "o2/llm", owner |-> NoActor, name |-> "llm",
       stargazers_count |-> "7", forks_count |-> "1"],
      [full_name |-> Null, owner |-> ActorDict("o1"), name |-> "x",
       stargazers_count |-> "5", forks_count |-> "1"],
      [full_name |-> "", owner |-> ActorDict("o1"), name |-> "x",
       stargazers_count |-> "5", forks_count |-> "1"] }

\* what search_repos_for_topic hands back: its items, or an exception
SearchOutcomes ==
    { CollReturn(items) : items \in RecordLists(SearchItems) }
      \cup { CollRaise(e) : e \in {"RuntimeError", "AttributeError"} }

\* what get_repo_topics hands back: the names, or an exception
TopicsOutcomes ==
    { CollReturn(t) : t \in { <<>>, <<"rag">> } }
      \cup { CollRaise(e) : e \in {"RuntimeError", "AttributeError"} }

\* item.get(key, 0)
GetOrZero(v) == IF v = Null THEN "0" ELSE v

\* lines 104-114: the descriptor made of the first item seen
NewDescriptor(item) ==
    [full_name |-> item.full_name,
     owner |-> item.owner.login,
     name |-> item.name,
     stargazers_count |-> GetOrZero(item.stargazers_count),
     forks_count |-> GetOrZero(item.forks_count),
     topics |-> <<>>,
     matched_topics |-> {}]

\* the place of full name f in the dict rs, 0 when it is not a key
KeyIndex(rs, f) ==
    IF \E i \in 1 .. Len(rs) : rs[i].full_name = f
    THEN CHOOSE i \in 1 .. Len(rs) : rs[i].full_name = f
    ELSE 0

\* variant: a later item of the same full name replaces the descriptor
AddItemLastSeen(rs, item, topic) ==
    LET k == KeyIndex(rs, item.full_name)
    IN  IF item.full_name \in {Null, ""} THEN CollReturn(rs)
        ELSE IF item.owner.shape = "none" THEN CollRaise("AttributeError")
        ELSE IF k = 0
        THEN CollReturn(Append(rs, [NewDescriptor(item) EXCEPT
                                       !.matched_topics = {topic}]))
        ELSE CollReturn([rs EXCEPT ![k] =
                 [NewDescriptor(item) EXCEPT
                     !.matched_topics = rs[k].matched_topics \cup {topic}]])

\* lines 100-115: one item of one topic search; a null owner has no .get
AddItem(rs, item, topic) ==
    LET k == KeyIndex(rs, item.full_name)
    IN  IF item.full_name \in {Null, ""} THEN CollReturn(rs)
        ELSE IF k = 0
        THEN IF item.owner.shape = "none" THEN CollRaise("AttributeError")
             ELSE CollReturn(Append(rs, [NewDescriptor(item) EXCEPT
                                            !.matched_topics = {topic}]))
        ELSE CollReturn([rs EXCEPT ![k].matched_topics = @ \cup {topic}])

RECURSIVE AddItems(_, _, _)
\* lines 99-115: `for item in items`
AddItems(rs, items, topic) ==
    IF items = <<>> THEN CollReturn(rs)
    ELSE LET one == AddItem(rs, Head(items), topic)
         IN  IF one.kind = "raise" THEN one
             ELSE AddItems(one.rows, Tail(items), topic)

\* line 124: sorted(list(info["matched_topics"]))
SortedMatched(S) ==
    LET In(x) == x \in S
    IN  SelectSeq(<<"llm", "vllm">>, In)

\* lines 96-115: one iteration of `for topic in topics`
find_repos_search_topic ==
    /\ op = "find_repos_by_topics"
    /\ fr_pc = "search"
    /\ fr_i <= Len(topics)
    /\ \E res \in SearchOutcomes :
         IF res.kind = "raise"
         THEN /\ fr_ret' = Raised(res.exc)
              /\ fr_pc' = "done"
              /\ UNCHANGED <<fr_i, searched, repos>>
         ELSE /\ searched' = Append(searched, res.rows)
              /\ LET added == AddItems(repos, res.rows, topics[fr_i])
                 IN  IF added.kind = "raise"
                     THEN /\ fr_ret' = Raised(added.exc)
                          /\ fr_pc' = "done"
                          /\ UNCHANGED <<fr_i, repos>>
                     ELSE /\ repos' = added.rows
                          /\ fr_i' = fr_i + 1
                          /\ UNCHANGED <<fr_pc, fr_ret>>
    /\ UNCHANGED <<topics, serializable>>
    /\ UNCHANGED <<op, http_vars, pipe_vars, bt_vars, sr_vars>>

\* lines 117-133: the topics of each repository, the file, the return
find_repos_fetch_topics ==
    /\ op = "find_repos_by_topics"
    /\ fr_pc = "search"
    /\ fr_i > Len(topics)
    /\ \E res \in TopicsOutcomes :
         IF res.kind = "raise" /\ repos /= <<>>
         THEN /\ fr_ret' = Raised(res.exc)
              /\ UNCHANGED <<repos, serializable>>
         ELSE /\ repos' = [i \in 1 .. Len(repos) |->
                             [repos[i] EXCEPT
                                 !.topics = res.rows,
                                 !.matched_topics = SortedMatched(@)]]
              /\ serializable' =
                     [done |-> TRUE,
                      content |-> [i \in 1 .. Len(repos) |->
                             [repos[i] EXCEPT
                                 !.topics = res.rows,
                                 !.matched_topics = SortedMatched(@)]]]
              /\ fr_ret' = Returned
    /\ fr_pc' = "done"
    /\ UNCHANGED <<topics, fr_i, searched>>
    /\ UNCHANGED <<op, http_vars, pipe_vars, bt_vars, sr_vars>>

----------------------------------------------------------------------------

Ops == {"request_with_rate_limit", "contributor_stats"} \cup Collectors
         \cup {"main", "aggregate", "scrape_users_from_prs",
               "scrape_repos_prs", "normalize", "discovered_repos",
               "scrape_repo", "find_repos_by_topics"}

Init ==
    /\ op \in Ops
    /\ IF op = "request_with_rate_limit"
       THEN max_retries \in RetryArgs /\ backoff \in BackoffArgs
       ELSE /\ max_retries = DefaultMaxRetries
            /\ backoff = IF op = "contributor_stats"
                         THEN JsonBackoff ELSE DefaultBackoff
    /\ attempt = 0
    /\ r = Unbound
    /\ last = "none"
    /\ now = 100
    /\ calls = 0
    /\ sleeps = 0
    /\ wait = 0
    /\ epc = IF op \in {"request_with_rate_limit", "contributor_stats"}
             THEN "loop" ELSE "idle"
    /\ ret = NoRet
    /\ IF op = "search_repos_for_topic"
       THEN max_pages \in 1 .. MaxPagesArg
       ELSE max_pages = 0
    /\ page = 1
    /\ all_rows = <<>>
    /\ cpc = IF op \in Collectors THEN "request" ELSE "idle"
    /\ cret = CollNone
    /\ requested = <<>>
    /\ served = <<>>
    /\ answers = <<>>
    /\ mpc = IF op = "main" THEN "targets" ELSE "idle"
    /\ ti = 1
    /\ manifest = EmptyMap
    /\ written = [done |-> FALSE, content |-> EmptyMap]
    /\ outcome = EmptyMap
    /\ assigned = <<>>
    /\ IF op = "aggregate"
       THEN /\ parent_exists \in BOOLEAN
            /\ fs \in [DirIndexes -> Entries]
            /\ ~parent_exists => \A i \in DirIndexes : fs[i] = EntryMissing
            /\ repos_json \in {"missing", "unreadable", "ok"}
            /\ repos_map \in ReposMaps
            /\ repos_json /= "ok" => repos_map = <<>>
       ELSE /\ parent_exists = FALSE
            /\ fs = [i \in DirIndexes |-> EntryMissing]
            /\ IF op = "discovered_repos"
               THEN repos_json = "ok" /\ repos_map \in ReposMaps
               ELSE repos_json = "missing" /\ repos_map = <<>>
    /\ agg_i = 1
    /\ agg_rows = <<>>
    /\ repo_csv_count = 0
    /\ apc = IF op = "aggregate" THEN "scan" ELSE "idle"
    /\ agg_ret = NoOutcome
    /\ master = [done |-> FALSE, rows |-> <<>>]
    /\ IF op = "scrape_users_from_prs"
       THEN prs_fs \in [DirIndexes -> PrEntries]
       ELSE prs_fs = [i \in DirIndexes |-> PrMissing]
    /\ su_i = 1
    /\ su_pc = IF op = "scrape_users_from_prs" THEN "scan" ELSE "idle"
    /\ logins_list = <<>>
    /\ ud_j = 1
    /\ user_rows = <<>>
    /\ results = EmptyMap
    /\ repo_files = [i \in DirIndexes |-> [written |-> FALSE, rows |-> <<>>]]
    /\ users_index = [done |-> FALSE, content |-> EmptyMap]
    /\ su_ret = NoOutcome
    /\ fetched = <<>>
    /\ IF op = "scrape_repos_prs"
       THEN prs \in {<<>>} \cup { <<p>> : p \in PullRequests }
       ELSE prs = <<>>
    /\ pr_i = 1
    /\ pr_records = <<>>
    /\ human_logins = {}
    /\ classified = <<>>
    /\ ppc = IF op = "scrape_repos_prs" THEN "loop" ELSE "idle"
    /\ prs_ret = NoOutcome
    /\ prs_json = [done |-> FALSE, records |-> <<>>]
    /\ IF op = "normalize"
       THEN \/ nz_kind = "contributors" /\ nz_in \in RecordLists(RawContributors)
            \/ nz_kind = "users" /\ nz_in \in RecordLists(RawUsers)
            \/ nz_kind = "pull_request"
                  /\ nz_in \in { <<p>> : p \in PullRequests }
       ELSE nz_kind = "none" /\ nz_in = <<>>
    /\ nz_pc = IF op = "normalize" THEN "raw" ELSE "idle"
    /\ nz_out = CollNone
    /\ nz_again = CollNone
    /\ bt_pc = IF op = "discovered_repos" THEN "prs" ELSE "idle"
    /\ bt_i = 1
    /\ pr_origin = [i \in DirIndexes |-> Null]
    /\ csv_origin = [i \in DirIndexes |-> Null]
    /\ bt_master = <<>>
    /\ bt_ret = NoOutcome
    /\ sr_pc = IF op = "scrape_repo" THEN "contributors" ELSE "idle"
    /\ contributors_rows = <<>>
    /\ df_contrib = <<>>
    /\ stats_rows = [kind |-> "return", exc |-> "", list |-> FALSE, len |-> 0]
    /\ logins = <<>>
    /\ df_users = <<>>
    /\ sr_files = EmptyMap
    /\ counts = [contributors |-> 0, users |-> 0, stats_entries |-> 0]
    /\ sr_ret = NoOutcome
    /\ fr_pc = IF op = "find_repos_by_topics" THEN "search" ELSE "idle"
    /\ IF op = "find_repos_by_topics"
       THEN topics \in TopicLists
       ELSE topics = <<>>
    /\ fr_i = 1
    /\ searched = <<>>
    /\ repos = <<>>
    /\ serializable = [done |-> FALSE, content |-> <<>>]
    /\ fr_ret = NoOutcome

Next ==
    \/ request_exception
    \/ request_response
    \/ retries_exhausted
    \/ get_json_exception
    \/ get_json_response
    \/ get_json_exhausted
    \/ collector_request
    \/ search_pages_exhausted
    \/ list_contributors_page
    \/ list_pull_requests_page
    \/ search_repos_for_topic_page
    \/ main_scrape_repo
    \/ main_find_repos
    \/ main_scrape_prs
    \/ main_scrape_users
    \/ main_aggregate
    \/ main_save_manifest
    \/ agg_repo_dir
    \/ agg_finish
    \/ su_entry
    \/ users_details_login
    \/ su_save
    \/ su_finish
    \/ scrape_repos_prs_record
    \/ scrape_repos_prs_save
    \/ apply_to_dataframe_contributors
    \/ apply_to_dataframe_users
    \/ apply_pr_record
    \/ by_topics_scrape_prs
    \/ by_topics_scrape_users
    \/ by_topics_aggregate
    \/ scrape_repo_contributors
    \/ scrape_repo_stats
    \/ scrape_repo_logins
    \/ scrape_repo_users
    \/ find_repos_search_topic
    \/ find_repos_fetch_topics

Spec == Init /\ [][Next]_vars

\* the program is sequential and every blocking call (a request with its
\* timeout, a sleep) comes back: a step that can be taken is taken
FairSpec == Spec /\ WF_vars(Next)

----------------------------------------------------------------------------
(* Properties of request_with_rate_limit                                   *)

\* the frame variables hold a call of request_with_rate_limit
InExecutor == op \in {"request_with_rate_limit"} \cup Collectors

ExecutorDone == epc \in {"returned", "raised"}

\* the step is the start of a new executor call
NewCall == epc' = "loop" /\ attempt' = 0 /\ calls' = 0

\* the step is one iteration of the retry loop
Iteration == epc = "loop" /\ attempt' = attempt + 1

\* statuses on which the loop hands the response back
Returnable(s) == s \in {200, 201, 204, 404} \/ ~(s = 202 \/ (400 <= s /\ s < 600))

\* C1: when all max_retries attempts are used up and none ended in a
\* returned response, the call raises; it never returns None or any other
\* non-Response value.
C1_ExhaustedRaises ==
    (InExecutor /\ ExecutorDone /\ ret.kind /= "response") => ret.kind = "raise"

\* C2: one call issues at most max_retries requests, every iteration uses up
\* one of them, a call that ends without a returnable status (200, 201,
\* 204, 404 or one outside 202 and 4xx/5xx) has issued exactly max_retries,
\* and every call terminates.
C2_AtMostMaxRetries ==
    /\ [](InExecutor => /\ calls <= max_retries
                        /\ calls = attempt
                        /\ (ExecutorDone /\ (r = Unbound \/ ~Returnable(r.status))
                              => calls = max_retries))
    /\ [][InExecutor /\ epc = "loop" /\ epc' = "loop" /\ ~NewCall
            => attempt' = attempt + 1 /\ calls' = calls + 1]_vars
    /\ (InExecutor /\ epc = "loop") ~> ExecutorDone

C2_Witness ==
    /\ op = "request_with_rate_limit" /\ epc = "raised"
    /\ max_retries = DefaultMaxRetries /\ calls = DefaultMaxRetries
    /\ last = "exception" /\ r.status = 429

\* C3: a 200, 201, 204 or 404 received on any attempt is returned at once:
\* the iteration that receives it sleeps not, and the call issues no request
\* and no sleep after it.
C3_ReturnsAtOnce ==
    [][InExecutor =>
        /\ (Iteration /\ last' = "response" /\ r'.status \in {200, 201, 204, 404})
             => /\ epc' = "returned"
                /\ ret' = RetResponse(r')
                /\ sleeps' = sleeps /\ wait' = wait
        /\ (epc = "returned" /\ ~NewCall)
             => UNCHANGED <<calls, sleeps, wait, attempt, r, ret, epc>>]_vars

C3_Witness ==
    /\ op = "request_with_rate_limit" /\ epc = "returned"
    /\ r.status = 404 /\ ret = RetResponse(r)
    /\ attempt = DefaultMaxRetries /\ sleeps = DefaultMaxRetries - 1

\* C4: a 429 or 403 carrying an integer Retry-After of N > 0 seconds is
\* followed by a sleep of at least N seconds before the next request,
\* whatever the reset header and the attempt number are.
C4_HonorsRetryAfter ==
    [][(InExecutor /\ Iteration /\ last' = "response"
          /\ r'.status \in {429, 403}
          /\ r'.ra.kind = "int" /\ r'.ra.val > 0)
        => /\ sleeps' = sleeps + 1
           /\ wait' >= TicksPerSecond * r'.ra.val
           /\ epc' = "loop"]_vars

C4_Witness ==
    /\ op = "request_with_rate_limit" /\ epc = "loop" /\ last = "response"
    /\ r.status = 429 /\ r.ra = Num(3) /\ r.reset = Num(95)
    /\ attempt = 2 /\ wait = 3 * TicksPerSecond

\* the latest iteration received a 429/403 without a usable Retry-After
RateLimitedNoRetryAfter ==
    /\ InExecutor /\ epc = "loop" /\ last = "response"
    /\ r.status \in {429, 403}
    /\ r.ra.kind /= "int"

\* C5 (as stated): without a usable Retry-After the wait is
\* reset - now + 2 seconds when a reset-epoch header is present and
\* min(60, backoff*attempt) seconds when neither header is present.
C5_WaitAsStated ==
    RateLimitedNoRetryAfter =>
        /\ r.reset.kind = "int"
             => wait = TicksPerSecond * (r.reset.val - now + 2)
        /\ (r.reset.kind = "absent" /\ r.ra.kind = "absent")
             => wait = Min(TicksPerSecond * 60, backoff * attempt)

\* C5 (amended): without a usable Retry-After the wait is
\* max(0, reset - now) + 2 seconds when an integer reset-epoch header is
\* present, and min(60, floor(backoff*attempt)) whole seconds when neither
\* header is present; when that floor is 0 the response is treated as a
\* generic error and the wait is backoff*attempt.
C5_WaitAmended ==
    RateLimitedNoRetryAfter =>
        /\ r.reset.kind = "int"
             => wait = TicksPerSecond *
                         ((IF r.reset.val > now THEN r.reset.val - now ELSE 0) + 2)
        /\ (r.reset.kind = "absent" /\ r.ra.kind = "absent")
             => LET whole == (backoff * attempt) \div TicksPerSecond
                    capped == IF whole > 60 THEN 60 ELSE whole
                IN  IF capped > 0
                    THEN wait = TicksPerSecond * capped
                    ELSE wait = backoff * attempt

C5_Witness ==
    /\ RateLimitedNoRetryAfter
    /\ r.reset = Num(95) /\ now = 101 /\ wait = 2 * TicksPerSecond

\* the fallback meets its cap of 60 seconds
C5_WitnessCap ==
    /\ RateLimitedNoRetryAfter
    /\ r.reset = Absent /\ r.ra = Absent
    /\ backoff * attempt > 60 * TicksPerSecond /\ wait = 60 * TicksPerSecond

----------------------------------------------------------------------------
(* Properties of the statistics fetch                                      *)

All202(sq) == \A i \in 1 .. Len(sq) : sq[i].status = 202

\* C7: when the statistics endpoint answers n consecutive 202 (n below
\* max_retries) and no request failed at the network level, the fetch is
\* still asking after each of them, and when a 200
\* follows them the fetch returns the payload of that 200 having made
\* exactly n + 1 calls.
C7_StatsAfter202s ==
    op = "contributor_stats" =>
        /\ (All202(answers) /\ Len(answers) < max_retries /\ last /= "exception")
             => epc = "loop" /\ ret = NoRet /\ calls = Len(answers)
        /\ (/\ answers /= <<>>
            /\ Len(answers) - 1 < max_retries
            /\ answers[Len(answers)].status = 200
            /\ All202(SubSeq(answers, 1, Len(answers) - 1)))
             => /\ epc = "returned"
                /\ ret = RetJson(answers[Len(answers)])
                /\ calls = Len(answers)

C7_Witness ==
    /\ op = "contributor_stats" /\ epc = "returned"
    /\ answers = <<Response(202, Absent, Absent, 0),
                   Response(200, Absent, Absent, 2)>>
    /\ ret.kind = "json" /\ ret.resp.body = 2 /\ calls = 2

----------------------------------------------------------------------------
(* Properties of the paginated collectors                                  *)

CollectorDone == op \in Collectors /\ cpc = "done"

\* every page request so far came back with status 200
AllServed200 ==
    \A i \in 1 .. Len(served) :
        served[i].kind = "response" /\ served[i].resp.status = 200

RECURSIVE ConcatPages(_, _)
\* the records of the first n served pages, in page order
ConcatPages(sv, n) ==
    IF n = 0 THEN <<>>
    ELSE ConcatPages(sv, n - 1) \o Rows(n, sv[n].resp.body)

RECURSIVE SumSizes(_, _)
SumSizes(sv, n) ==
    IF n = 0 THEN 0 ELSE SumSizes(sv, n - 1) + sv[n].resp.body

\* all served pages but the last hold records
EarlierNonEmpty ==
    \A i \in 1 .. Len(served) - 1 : served[i].resp.body > 0

LastServedEmpty ==
    served /= <<>> /\ served[Len(served)].resp.body = 0

C8_WitnessShortPage ==
    /\ CollectorDone /\ AllServed200
    /\ op = "list_pull_requests"
    /\ Len(served) = 2
    /\ served[1].resp.body = 1 /\ served[1].resp.body < MaxPageLen
    /\ served[2].resp.body = 0
    /\ cret.rows = <<<<1, 1>>>>

\* C9: every collector requests pages 1, 2, 3, ... consecutively, each with
\* per_page = 100, and requests page p+1 only after page p came back as a
\* non-empty 200 response.
C9_ConsecutivePages ==
    op \in Collectors =>
        /\ \A i \in 1 .. Len(requested) :
              requested[i].page = i /\ requested[i].per_page = 100
        /\ \A i \in 2 .. Len(requested) :
              /\ served[i - 1].kind = "response"
              /\ served[i - 1].resp.status = 200
              /\ served[i - 1].resp.body > 0

\* C10: a collector that is handed a response with a non-success status
\* (404) for some page stops and returns the records of the earlier pages
\* without raising: the executor did not raise, so neither does it.
C10_PartialOnFailure ==
    (/\ CollectorDone
     /\ served[Len(served)].kind = "response"
     /\ served[Len(served)].resp.status = 404)
        => /\ cret.kind /= "raise"
           /\ cret = CollReturn(ConcatPages(served, Len(served) - 1))

----------------------------------------------------------------------------
(* Properties of main                                                      *)

MainOver == op = "main" /\ mpc \in {"done", "crashed"}

\* the number of times key k was assigned
TimesAssigned(k) == Cardinality({i \in 1 .. Len(assigned) : assigned[i] = k})

Steps == {"discovered_repos", "discovered_repos_prs", "pr_users_index",
          "all_contributors_master_csv"}
           \cup {Targets[i] : i \in 1 .. Len(Targets)}

\* C11: whichever targets fail, every target gets exactly one manifest
\* entry under "owner/repo" (its metadata on success, its error on failure),
\* the later targets and the topic discovery are still run, and
\* MANIFEST.json is eventually written.
C11_TargetsIsolated ==
    /\ [](MainOver =>
            /\ \A i \in 1 .. Len(Targets) :
                 /\ Targets[i] \in DOMAIN outcome
                 /\ Targets[i] \in DOMAIN manifest
                 /\ TimesAssigned(Targets[i]) = 1
                 /\ manifest[Targets[i]] =
                      IF outcome[Targets[i]] = "ok"
                      THEN Summary(Targets[i]) ELSE Error(Targets[i])
            /\ "discovered_repos" \in DOMAIN outcome
            /\ written.done
            /\ \A i \in 1 .. Len(Targets) :
                 /\ Targets[i] \in DOMAIN written.content
                 /\ written.content[Targets[i]] = manifest[Targets[i]])
    /\ (op = "main") ~> (mpc = "done" /\ written.done)

C11_Witness ==
    /\ op = "main" /\ mpc = "done" /\ written.done
    /\ outcome[Targets[1]] = "failed" /\ outcome[Targets[2]] = "ok"
    /\ written.content[Targets[1]] = Error(Targets[1])
    /\ written.content[Targets[2]] = Summary(Targets[2])
    /\ "discovered_repos" \in DOMAIN outcome

\* C12: at the end of a run every step that was run has an entry, a success
\* summary if it succeeded and an error if it failed.
C12_EntryPerStep ==
    (op = "main" /\ mpc = "done") =>
        \A s \in DOMAIN outcome :
            /\ s \in DOMAIN manifest
            /\ manifest[s].kind = IF outcome[s] = "ok" THEN "summary" ELSE "error"

\* C13: within a run an assigned key of manifest["outputs"] is never
\* replaced or removed by a later step.
C13_AppendOnly ==
    [][\A k \in DOMAIN manifest :
          k \in DOMAIN manifest' /\ manifest'[k] = manifest[k]]_vars

----------------------------------------------------------------------------
(* aggregate_contributors_master                                           *)

AggOver == op = "aggregate" /\ apc = "done"

\* the table the aggregator is to read in directory i, by the rule of the
\* text: contributors when present, users only when contributors is absent
TableOf(i) ==
    IF fs[i].contributors.state /= "absent" THEN fs[i].contributors
    ELSE fs[i].users

TableNameOf(i) ==
    IF fs[i].contributors.state /= "absent" THEN "contributors.csv"
    ELSE "users.csv"

\* directory i gives a table that can be read
Readable(i) == fs[i].kind = "dir" /\ TableOf(i).state = "table"

ReadableDirs == {i \in DirIndexes : Readable(i)}

\* the original rows the master table is to hold
ExpectedSources ==
    UNION { {[dir |-> DirNames[i], file |-> TableNameOf(i), i |-> k]
                : k \in 1 .. TableOf(i).rows} : i \in ReadableDirs }

RECURSIVE SumRows(_)
SumRows(S) ==
    IF S = {} THEN 0
    ELSE LET i == CHOOSE x \in S : TRUE
         IN  TableOf(i).rows + SumRows(S \ {i})

MasterSources == {master.rows[k].src : k \in 1 .. Len(master.rows)}

\* C14: when no per-repository table was read (parent directory missing or
\* empty, no subdirectory with a table, or every table found unreadable) the
\* aggregator raises and no master CSV is written
C14_RaisesOnNoInput ==
    (AggOver /\ ReadableDirs = {})
        => (agg_ret = Raised("RuntimeError") /\ ~master.done)

\* every table found was unreadable
C14_Witness ==
    /\ AggOver
    /\ ReadableDirs = {}
    /\ \E i \in DirIndexes :
          fs[i].kind = "dir" /\ fs[i].contributors.state = "unreadable"
    /\ agg_ret = Raised("RuntimeError")

\* C15: per subdirectory the contributors table is used when it exists, the
\* users table only when contributors is absent, never both; a subdirectory
\* with neither, and an entry that is not a directory, give no rows
C15_PrefersContributors ==
    /\ \A t \in 1 .. Len(agg_rows) : \A k \in 1 .. Len(agg_rows[t]) :
          LET row == agg_rows[t][k]
          IN  \E i \in DirIndexes :
                /\ DirNames[i] = row.src.dir
                /\ fs[i].kind = "dir"
                /\ row.src.file = "contributors.csv"
                      => fs[i].contributors.state = "table"
                /\ row.src.file = "users.csv"
                      => (fs[i].contributors.state = "absent"
                            /\ fs[i].users.state = "table")
    /\ \A t, u \in 1 .. Len(agg_rows) : \A k \in 1 .. Len(agg_rows[t]) :
          \A l \in 1 .. Len(agg_rows[u]) :
             agg_rows[t][k].src.dir = agg_rows[u][l].src.dir
                => agg_rows[t][k].src.file = agg_rows[u][l].src.file
    /\ (AggOver /\ agg_ret = Returned) => MasterSources = ExpectedSources

\* both tables exist in one directory, only users exists in the other
C15_Witness ==
    /\ AggOver
    /\ agg_ret = Returned
    /\ fs[1] = EntryDir(Table(2), Table(1))
    /\ fs[2] = EntryDir(FileAbsent, Table(1))
    /\ Len(master.rows) = 3

\* the descriptor the text names for a directory: the first of the map, in
\* map order, whose name is the directory name
Matches(name) ==
    {m \in 1 .. Len(LoadReposMap(repos_json, repos_map)) :
        LoadReposMap(repos_json, repos_map)[m].name = name}

Earliest(S) == CHOOSE m \in S : \A n \in S : m <= n

\* C16: all rows of a source table carry the metadata of the first matching
\* descriptor; without a match they carry null full name and owner and empty
\* topics and matched_topics
C16_FirstMatchWins ==
    \A t \in 1 .. Len(agg_rows) : \A k \in 1 .. Len(agg_rows[t]) :
        LET row == agg_rows[t][k]
            M == Matches(row.src.dir)
        IN  /\ row.repo_dir = row.src.dir
            /\ row.repo_name = row.src.dir
            /\ IF M = {}
               THEN /\ row.full_name = Null
                    /\ row.owner = Null
                    /\ row.topics = <<>>
                    /\ row.matched_topics = <<>>
               ELSE LET dsc == repos_map[Earliest(M)]
                    IN  /\ row.full_name = dsc.full_name
                        /\ row.owner = dsc.owner
                        /\ row.topics = Join(dsc.topics)
                        /\ row.matched_topics = Join(dsc.matched_topics)

\* two descriptors are named llm; the other directory matches none
C16_Witness ==
    /\ AggOver
    /\ agg_ret = Returned
    /\ repos_json = "ok"
    /\ Len(repos_map) = 2
    /\ repos_map[1].full_name = "o2/llm"
    /\ repos_map[2].full_name = "o1/llm"
    /\ \E k \in 1 .. Len(master.rows) :
          /\ master.rows[k].repo_dir = "llm"
          /\ master.rows[k].owner = "o2"
          /\ master.rows[k].matched_topics = <<"mlops">>
    /\ \E k \in 1 .. Len(master.rows) :
          /\ master.rows[k].repo_dir = "vllm"
          /\ master.rows[k].full_name = Null
          /\ master.rows[k].topics = <<>>

\* C17: the master table has as many rows as the tables read have together,
\* and each original row is there exactly once
C17_RowsConserved ==
    (AggOver /\ agg_ret = Returned)
        => /\ master.done
           /\ Len(master.rows) = SumRows(ReadableDirs)
           /\ \A k, l \in 1 .. Len(master.rows) :
                 master.rows[k].src = master.rows[l].src => k = l
           /\ MasterSources = ExpectedSources

\* two tables read, one of them of a directory no descriptor names
C17_Witness ==
    /\ AggOver
    /\ agg_ret = Returned
    /\ Cardinality(ReadableDirs) = 2
    /\ Len(master.rows) = 2 * MaxRows
    /\ \E k \in 1 .. Len(master.rows) : master.rows[k].full_name = Null
    /\ \E k \in 1 .. Len(master.rows) : master.rows[k].full_name /= Null

----------------------------------------------------------------------------
(* unreadable files; user profiles                                         *)

SuOver == op = "scrape_users_from_prs" /\ su_pc = "done"

Parsable(d) == prs_fs[d].kind = "dir" /\ prs_fs[d].prs = "ok"

\* the table the aggregator is to read in directory i cannot be read
UnreadableDir(i) == fs[i].kind = "dir" /\ TableOf(i).state = "unreadable"

ReadErrors == {"ParserError", "JSONDecodeError"}

\* C18: an unreadable file is skipped for its own item only.  A directory
\* whose pull_requests.json cannot be parsed never gets an index entry, every
\* directory that can be parsed gets one when the function returns, and the
\* function raises only out of a profile request made for a parsable
\* directory.  A directory whose table cannot be read gives the master no
\* row, the rows of all readable directories are aggregated, and the read
\* error itself never leaves either function (with no readable table at all
\* the aggregator raises the RuntimeError of C14, not the read error)
C18_UnreadableSkipped ==
    /\ \A d \in DirIndexes :
          prs_fs[d] = PrDirUnparsable
             => /\ DirNames[d] \notin DOMAIN results
                /\ DirNames[d] \notin DOMAIN users_index.content
                /\ ~repo_files[d].written
    /\ su_ret.exc \notin ReadErrors
    /\ (SuOver /\ su_ret = Returned)
          => /\ users_index.done
             /\ \A d \in DirIndexes :
                   Parsable(d) => DirNames[d] \in DOMAIN users_index.content
    /\ (SuOver /\ su_ret.kind = "raise")
          => /\ Parsable(SelectListed(prs_fs, 1)[su_i])
             /\ fetched /= <<>>
    /\ \A t \in 1 .. Len(agg_rows) : \A k \in 1 .. Len(agg_rows[t]) :
          \A i \in DirIndexes :
             UnreadableDir(i) => agg_rows[t][k].src.dir /= DirNames[i]
    /\ agg_ret.exc \notin ReadErrors
    /\ (AggOver /\ ReadableDirs /= {})
          => /\ agg_ret = Returned
             /\ MasterSources = ExpectedSources

\* the first directory cannot be parsed, the second one is processed
C18_Witness ==
    /\ SuOver
    /\ su_ret = Returned
    /\ prs_fs[1] = PrDirUnparsable
    /\ Parsable(2)
    /\ DOMAIN users_index.content = {DirNames[2]}
    /\ users_index.content[DirNames[2]].users_fetched = 2

\* the first table cannot be read, the rows of the second are aggregated
C18_WitnessAggregate ==
    /\ AggOver
    /\ agg_ret = Returned
    /\ UnreadableDir(1)
    /\ Readable(2)
    /\ Len(master.rows) = MaxRows
    /\ \A k \in 1 .. Len(master.rows) : master.rows[k].repo_dir = DirNames[2]

\* C19: within one run the profile endpoint of a login is requested at most
\* once, however many repositories refer to the login
C19_FetchedOnce ==
    \A i, j \in 1 .. Len(fetched) : fetched[i] = fetched[j] => i = j

----------------------------------------------------------------------------
(* human or bot                                                            *)

\* the text of an actor's login; an actor without one has the empty text
LoginText(a) == IF a.login.kind = "str" THEN a.login.chars ELSE <<>>

\* the classification as the text states it
HumanByText(a) ==
    /\ a.type = Str(UserType)
    /\ ~EndsWith(Lower(LoginText(a)), <<"[", "b", "o", "t", "]">>)
    /\ ~EndsWith(Lower(LoginText(a)), <<"b", "o", "t">>)

\* C20: for every actor is_human_user returns true exactly when the type is
\* "User" and the login, whatever its case, ends neither with "[bot]" nor
\* with "bot"; the is_human field of every pull-request record is that value
\* for the author of the pull request
C20_HumanIffUserNoBotSuffix ==
    /\ \A k \in 1 .. Len(classified) :
          classified[k] = HumanReturn(HumanByText(AuthorOf(prs[k])))
    /\ \A k \in 1 .. Len(pr_records) :
          pr_records[k].is_human = HumanByText(AuthorOf(prs[k]))
    /\ \A k \in 1 .. Len(prs_json.records) :
          prs_json.records[k].is_human = HumanByText(AuthorOf(prs[k]))

\* the same for the authors whose login is not an explicit null
C20_HoldsUnlessLoginNull ==
    /\ \A k \in 1 .. Len(classified) :
          AuthorOf(prs[k]).login.kind /= "null"
             => classified[k] = HumanReturn(HumanByText(AuthorOf(prs[k])))
    /\ \A k \in 1 .. Len(prs_json.records) :
          prs_json.records[k].is_human = HumanByText(AuthorOf(prs[k]))

----------------------------------------------------------------------------
(* get_json_with_retry and request_with_rate_limit, what the caller gets   *)

InStats == op = "contributor_stats"

Count202(sq) == Cardinality({i \in 1 .. Len(sq) : sq[i].status = 202})

\* C28: the statistics fetch issues at most max_retries requests (6 by
\* default) and ends by returning the body of a 200 or by raising, never by
\* returning nothing; a 4xx/5xx answer, 403 and 429 included, makes it raise
\* at once with no wait, and max_retries answers of 202 make it raise the
\* max-retries error; the fetch always ends
C28_StatsFetchEnds ==
    /\ [](InStats =>
            /\ max_retries = DefaultMaxRetries
            /\ calls <= max_retries
            /\ ExecutorDone => ret.kind \in {"json", "raise"}
            /\ ret.kind = "json"
                 => /\ answers /= <<>>
                    /\ answers[Len(answers)].status = 200
                    /\ ret.resp = answers[Len(answers)]
            /\ (/\ last = "response"
                /\ answers /= <<>>
                /\ answers[Len(answers)].status >= 400
                /\ answers[Len(answers)].status < 600)
                 => /\ epc = "raised"
                    /\ ret = RetRaise("HTTPError")
                    /\ sleeps = Count202(answers)
            /\ (All202(answers) /\ Len(answers) = max_retries
                   /\ last = "response" /\ ExecutorDone)
                 => ret = RetRaise("RuntimeError"))
    /\ [][(InStats /\ last' = "response" /\ r'.status >= 400 /\ r'.status < 600)
             => UNCHANGED <<sleeps, wait, attempt>>]_vars
    /\ (InStats /\ epc = "loop") ~> (InStats /\ ExecutorDone)

\* max_retries answers of 202 and the max-retries error
C28_Witness ==
    /\ InStats
    /\ All202(answers)
    /\ Len(answers) = DefaultMaxRetries
    /\ calls = DefaultMaxRetries
    /\ ret = RetRaise("RuntimeError")

\* a 429 after two 202s: raised at once
C28_WitnessRateLimit ==
    /\ InStats
    /\ Len(answers) = 3
    /\ answers[3].status = 429
    /\ ret = RetRaise("HTTPError")
    /\ sleeps = 2
    /\ calls = 3

\* the 403/429 response has a computed wait of zero: an integer Retry-After
\* of 0, or neither header usable and int(backoff * attempt) = 0
ZeroWait(resp, b, k) ==
    \/ resp.ra = Num(0)
    \/ /\ ~(Truthy(resp.ra) /\ IsInt(resp.ra))
       /\ ~(Truthy(resp.reset) /\ IsInt(resp.reset))
       /\ b * k < TicksPerSecond

\* C29: the executor never hands back a response of status 202, 403, 429 or
\* of any other 4xx/5xx status but 404; a 403/429 whose computed wait is zero
\* is followed by a sleep of backoff * attempt and a retry, and a call that
\* ends on a 403/429 ends with the error raised when the attempts are used up
C29_NoFailureReturned ==
    InExecutor =>
        /\ ret.kind = "response"
             => /\ ret.resp.status \notin {202, 403, 429}
                /\ (400 <= ret.resp.status /\ ret.resp.status < 600)
                      => ret.resp.status = 404
        /\ (last = "response" /\ r.status \in {403, 429})
             => /\ ret.kind \in {"none", "raise"}
                /\ ZeroWait(r, backoff, attempt) => wait = backoff * attempt
        /\ (ExecutorDone /\ r.status \in {403, 429})
             => /\ ret = RetRaise("RuntimeError")
                /\ attempt = max_retries

\* Retry-After: 0 on the last attempt, then the error
C29_Witness ==
    /\ op = "request_with_rate_limit"
    /\ epc = "raised"
    /\ r.status = 429
    /\ r.ra = Num(0)
    /\ last = "response"
    /\ wait = backoff * max_retries
    /\ max_retries = MaxRetriesArg
    /\ ret = RetRaise("RuntimeError")

----------------------------------------------------------------------------
(* users_details, one failed lookup                                        *)

\* users_details was entered for the directory at hand
InUsersDetails == op = "scrape_users_from_prs" /\ logins_list /= <<>>

RECURSIVE IsSubsequence(_, _)
\* a is b with some elements left out
IsSubsequence(a, b) ==
    IF a = <<>> THEN TRUE
    ELSE IF b = <<>> THEN FALSE
    ELSE IF Head(a) = Head(b) THEN IsSubsequence(Tail(a), Tail(b))
    ELSE IsSubsequence(a, Tail(b))

\* C27: a failed lookup leaves out the login in flight only: whether the
\* request ends in a non-200 response or in exhausted retries, every later
\* login of the list is still requested, and the profiles returned are those
\* of the successful logins in input order
C27_FailedLookupIsolated ==
    /\ InUsersDetails => IsSubsequence(user_rows, logins_list)
    /\ (InUsersDetails /\ su_pc = "done") => ud_j > Len(logins_list)
    /\ (op = "scrape_users_from_prs" /\ su_pc = "done") => su_ret = Returned

----------------------------------------------------------------------------
(* normalization                                                           *)

Normalized(kind) == op = "normalize" /\ nz_kind = kind /\ nz_pc /= "raw"

HasValue(rec, k) == k \in DOMAIN rec /\ rec[k] /= JsonNull

\* C21: the normalized login of a contributor is the record's login when it
\* is present and not null, and the record's name otherwise; it is null only
\* when the source gives neither a login nor a name
C21_LoginOrName ==
    Normalized("contributors") =>
        /\ nz_out.kind = "return"
        /\ Len(nz_out.rows) = Len(nz_in)
        /\ \A i \in 1 .. Len(nz_in) :
              /\ HasValue(nz_in[i], "login")
                    => nz_out.rows[i].login = nz_in[i].login
              /\ (~HasValue(nz_in[i], "login") /\ HasValue(nz_in[i], "name"))
                    => nz_out.rows[i].login = nz_in[i].name
              /\ nz_out.rows[i].login = JsonNull
                    <=> (~HasValue(nz_in[i], "login")
                           /\ ~HasValue(nz_in[i], "name"))

\* login null and name "J" give login "J"; the record with neither stays null
C21_Witness ==
    /\ Normalized("contributors")
    /\ Len(nz_in) = 2
    /\ nz_in[1] = [login |-> JsonNull, name |-> Str(<<"J">>), id |-> Str(<<"7">>)]
    /\ nz_out.rows[1].login = Str(<<"J">>)
    /\ nz_in[2] = [contributions |-> JsonInt(<<"2">>)]
    /\ nz_out.rows[2].login = JsonNull

AllowList ==
    {"login", "name", "company", "blog", "location", "email", "hireable",
     "bio", "twitter_username", "public_repos", "followers", "following",
     "created_at", "updated_at"}

\* C22: for a non-empty list of raw users there is one row per record, in
\* input order, whose fields are exactly the allow-list: a field absent from
\* the source is null, a source field outside the list never appears
C22_AllowListOnly ==
    (Normalized("users") /\ nz_in /= <<>>) =>
        /\ nz_out.kind = "return"
        /\ Len(nz_out.rows) = Len(nz_in)
        /\ \A i \in 1 .. Len(nz_in) :
              /\ DOMAIN nz_out.rows[i] = AllowList
              /\ \A k \in AllowList :
                    nz_out.rows[i][k] =
                       IF k \in DOMAIN nz_in[i] THEN nz_in[i][k] ELSE JsonNull

\* a profile with keys outside the list, then one holding a login only
C22_Witness ==
    /\ Normalized("users")
    /\ Len(nz_in) = 2
    /\ "avatar_url" \in DOMAIN nz_in[1]
    /\ nz_out.rows[1].login = Str(<<"a">>)
    /\ nz_out.rows[1].public_repos = JsonInt(<<"3">>)
    /\ DOMAIN nz_in[2] = {"login"}
    /\ nz_out.rows[2].login = Str(<<"b">>)
    /\ nz_out.rows[2].name = JsonNull

\* C23: normalization is total: on every JSON object, fields missing or null
\* included, the contributor and user normalizations, is_human_user and the
\* record construction of scrape_repos_prs complete without raising
C23_NormalizationTotal ==
    /\ (op = "normalize" /\ nz_pc /= "raw") => nz_out.kind = "return"
    /\ \A k \in 1 .. Len(classified) : classified[k].kind = "return"
    /\ prs_ret.kind /= "raise"

\* C24: normalization is idempotent for every kind: applied to a record that
\* is its own output it completes and yields a record equal to its input
C24_Idempotent ==
    (op = "normalize" /\ nz_out.kind = "return")
        => /\ nz_pc = "twice" => nz_again = nz_out
           /\ nz_again.kind /= "raise"

\* the same for the two table normalizations alone
C24_HoldsForTables ==
    (op = "normalize" /\ nz_kind \in {"contributors", "users"}
        /\ nz_pc = "twice") => nz_again = nz_out

\* C25: every per-repository table written holds at most one row per login,
\* whatever the pages and profiles of the remote API are
C25_OneRowPerLogin ==
    /\ Normalized("contributors")
          => \A i, j \in 1 .. Len(nz_out.rows) :
                (nz_out.rows[i].login /= JsonNull
                   /\ nz_out.rows[i].login = nz_out.rows[j].login) => i = j
    /\ Normalized("users")
          => \A i, j \in 1 .. Len(nz_out.rows) :
                (nz_out.rows[i]["login"] /= JsonNull
                   /\ nz_out.rows[i]["login"] = nz_out.rows[j]["login"])
                      => i = j
    /\ \A d \in DirIndexes : \A i, j \in 1 .. Len(repo_files[d].rows) :
          repo_files[d].rows[i] = repo_files[d].rows[j] => i = j

\* C26: every pull-request record written with a merged_at that is not null
\* has state closed
C26_MergedIsClosed ==
    \A k \in 1 .. Len(prs_json.records) :
        prs_json.records[k].merged_at /= JsonNull
            => prs_json.records[k].state = Str(<<"c">>)

\* state and merged_at of a record are those of the listing's pull request
C26_CopiedFromListing ==
    \A k \in 1 .. Len(prs_json.records) :
        /\ prs_json.records[k].merged_at = prs[k].merged_at
        /\ prs_json.records[k].state = prs[k].state

----------------------------------------------------------------------------
(* attribution of the master rows                                          *)

\* C30: every row of the master table that carries full name F was derived
\* from the pull requests of repository F, also when two discovered
\* repositories share a bare name under different owners
C30_RowsOfNamedRepository ==
    \A k \in 1 .. Len(bt_master) :
        bt_master[k].full_name /= Null
            => bt_master[k].origin = bt_master[k].full_name

\* with distinct bare names every row is attributed to its own repository
C30_HoldsForDistinctNames ==
    (\A i, j \in 1 .. Len(repos_map) :
        repos_map[i].name = repos_map[j].name => i = j)
        => C30_RowsOfNamedRepository

----------------------------------------------------------------------------
(* scrape_repo on the listings the API can return                          *)

\* scrape_repo has ended, its listing was returned, and neither the
\* statistics fetch nor a profile lookup is what ended it
ListingServed ==
    /\ op = "scrape_repo"
    /\ sr_ret /= NoOutcome
    /\ sr_pc \in {"logins", "done"}

\* the three files are written and the summary counts their rows
SummaryMatchesFiles ==
    /\ sr_ret = Returned
    /\ DOMAIN sr_files
         = {"contributors.csv", "contributor_stats.json", "users.csv"}
    /\ counts.contributors = sr_files["contributors.csv"]
    /\ counts.users = sr_files["users.csv"]
    /\ counts.contributors = Len(contributors_rows)

\* C31: for every contributor listing returned by the API, the empty one
\* included, scrape_repo ends without raising, writes the contributors
\* table, the statistics document and the users table, and returns a
\* summary whose contributors and users counts are the row counts of the
\* tables it wrote.
C31_EveryListingScraped == ListingServed => SummaryMatchesFiles

\* the same holds as soon as the listing has one contributor
C31_HoldsForNonEmptyListing ==
    (ListingServed /\ contributors_rows /= <<>>) => SummaryMatchesFiles

\* a listing of two contributors was scraped to its end
C31_WitnessScraped ==
    /\ ListingServed
    /\ Len(contributors_rows) = 2
    /\ SummaryMatchesFiles
    /\ counts.users = 1

\* the empty listing: the tables of the first two steps are written, then
\* the login column is missing
C31_EmptyListingRaises ==
    /\ ListingServed
    /\ contributors_rows = <<>>
    /\ sr_ret = Raised("KeyError")
    /\ DOMAIN sr_files = {"contributors.csv", "contributor_stats.json"}

----------------------------------------------------------------------------
(* find_repos_by_topics: what is returned                                  *)

\* every item the topic searches gave, in the order seen
ItemsSeen == Concat(searched)

\* the full names found by any topic search
FullNamesFound ==
    { ItemsSeen[j].full_name : j \in 1 .. Len(ItemsSeen) } \ {Null, ""}

\* the first item seen for full name f
FirstSeen(f) ==
    ItemsSeen[CHOOSE j \in 1 .. Len(ItemsSeen) :
                 /\ ItemsSeen[j].full_name = f
                 /\ \A k \in 1 .. j - 1 : ItemsSeen[k].full_name /= f]

\* the searched topics whose results held full name f
TopicsHolding(f) ==
    { topics[k] : k \in { n \in 1 .. Len(searched) :
                            \E j \in 1 .. Len(searched[n]) :
                               searched[n][j].full_name = f } }

\* the list is in ascending order of str and without duplicates
StrictlySorted(sq) ==
    \A a, b \in 1 .. Len(sq) : a < b => (sq[a] = "llm" /\ sq[b] = "vllm")

FindReposReturned == op = "find_repos_by_topics" /\ fr_ret = Returned

\* C32: find_repos_by_topics returns exactly one descriptor per distinct
\* full name found by any topic search, items without a full name being
\* dropped; owner, name and counts are those of the first item seen for
\* that full name (0 for a count the item lacks); matched_topics is the
\* sorted, duplicate-free, non-empty list of exactly the searched topics
\* whose results held the repository, whatever the fetched topics list is.
C32_OneDescriptorPerFullName ==
    FindReposReturned =>
        LET d == serializable.content
        IN  /\ serializable.done
            /\ { d[i].full_name : i \in 1 .. Len(d) } = FullNamesFound
            /\ Len(d) = Cardinality(FullNamesFound)
            /\ \A i \in 1 .. Len(d) :
                 LET item == FirstSeen(d[i].full_name)
                     m == d[i].matched_topics
                 IN  /\ d[i].owner = item.owner.login
                     /\ d[i].name = item.name
                     /\ d[i].stargazers_count
                          = IF item.stargazers_count = Null THEN "0"
                            ELSE item.stargazers_count
                     /\ d[i].forks_count
                          = IF item.forks_count = Null THEN "0"
                            ELSE item.forks_count
                     /\ Len(m) >= 1
                     /\ StrictlySorted(m)
                     /\ { m[k] : k \in 1 .. Len(m) }
                          = TopicsHolding(d[i].full_name)

\* two repositories; the first was seen twice with different counts, under
\* both topics, given in descending order, and none of its matched topics
\* is in its fetched topics list
C32_Witness ==
    /\ FindReposReturned
    /\ topics = <<"vllm", "llm">>
    /\ Len(serializable.content) = 2
    /\ serializable.content[1].full_name = "o1/llm"
    /\ serializable.content[1].stargazers_count = "5"
    /\ \E j \in 1 .. Len(ItemsSeen) :
          ItemsSeen[j].full_name = "o1/llm"
            /\ ItemsSeen[j].stargazers_count = "7"
    /\ serializable.content[1].matched_topics = <<"llm", "vllm">>
    /\ serializable.content[1].topics = <<"rag">>
    /\ serializable.content[2].stargazers_count = "0"

\* the same topic given twice is matched once, and items without a full
\* name leave no descriptor
C32_WitnessDuplicateTopic ==
    /\ FindReposReturned
    /\ topics = <<"llm", "llm">>
    /\ Len(searched[1]) = 2 /\ Len(searched[2]) = 2
    /\ searched[1][1].full_name = Null
    /\ searched[2][1].full_name = ""
    /\ Len(serializable.content) = 1
    /\ serializable.content[1].matched_topics = <<"llm">>

====
